---- MODULE Spec2Model ----
(***************************************************************************)
(* The secure tunnel core of the portal WASM client: the SecureConnection  *)
(* nonce discipline (crypto.rs), a pair of SecureConnection instances on a *)
(* loopback, and the ProxyEngine's use of the TunnelManager mapping        *)
(* (proxy_engine.rs, tunnel_manager.rs).                                   *)
(***************************************************************************)
EXTENDS Integers, Sequences, FiniteSets, TLC

(***************************************************************************)
(* Bounds.  The source's nonce is NONCE_SIZE = 12 bytes of 256 values      *)
(* each; the model keeps the byte-array shape and the carry rule and       *)
(* scales both numbers down, so that a whole cycle of the counter is       *)
(* within reach of the model checker.                                      *)
(***************************************************************************)
NONCE_SIZE == 2

ByteMod == 2

MaxOps == 3

MaxSent == 4

MaxPt == 1

MaxPairOps == 3

MaxEngineOps == 4

VARIABLES
    hs,             \* "none" before client_handshake returned, then "done"
    client_nonce,   \* the nonce sent in ClientInit
    server_nonce,   \* the nonce received in ServerInit
    encrypt_nonce,  \* SecureConnection.encrypt_nonce
    decrypt_nonce,  \* SecureConnection.decrypt_nonce
    wfut,           \* the pending write future of the connection, if any
    wire_out,       \* the messages handed to the transport, in order
    enc_log,        \* history: the nonce of every encryption, in order
    accepted,       \* history: the frames read() returned Ok for, in order
    last_read,      \* history: the last read() that returned, and its result
    mismatch_seen,  \* history: some read() has failed with nonce mismatch
    last_write,     \* history: the last write() that returned or was dropped
    ops,            \* number of read/write calls made so far
    budget,         \* number of read/write calls the run may make
    b_conn,         \* the second SecureConnection (reader side of the loopback)
    b_log,          \* history: what the second connection's reads returned
    tunnels,        \* TunnelManager.tunnels: id -> tunnel
    eng_last,       \* history: the last ProxyEngine call that returned
    eng_ops,        \* number of ProxyEngine calls made so far
    ws_in,          \* a WebSocketStream's read side and the bytes its peer sends
    rlp,            \* the pending read_length_prefixed future, if any
    frame_last,     \* history: the last framing call that returned
    hsk,            \* history: the last client_handshake call and what it received
    sockets,        \* the WebSocketStreams create_tunnel has opened, in order
    mgr_last,       \* history: the last TunnelManager call
    mgr_ids,        \* history: the ids created and not removed or cleared since
    tasks,          \* the send_request/receive_response calls issued on one tunnel
    guard,          \* the task holding the tunnel's connection Mutex, or 0
    chan_log,       \* history: the tasks in the order they entered read/write
    stalled,        \* the executor's only thread is parked inside Mutex::lock
    codec,          \* history: the last packet encoded, sent and decoded
    ad,             \* a WebSocketStream, its socket, and history of its bytes
    rd,             \* the task reading from the stream
    wr,             \* the task writing to the stream
    ad_last,        \* history: the last handler or poll of the stream
    connects,       \* the calls of WebSocketStream::connect, in call order
    wk,             \* a WebSocketStream whose poll_read and handlers run in steps
    rc              \* a RelayClient: its leases, its Mutex, its register_lease calls

vars == <<hs, client_nonce, server_nonce, encrypt_nonce, decrypt_nonce, wfut,
          wire_out, enc_log, accepted, last_read, mismatch_seen, last_write, ops, budget,
          b_conn, b_log, tunnels, eng_last, eng_ops, ws_in, rlp, frame_last, hsk,
          sockets, mgr_last, mgr_ids, tasks, guard, chan_log, stalled,
          codec, ad, rd, wr, ad_last, connects, wk, rc>>

chanVars == <<hs, client_nonce, server_nonce, encrypt_nonce, decrypt_nonce,
              wfut, wire_out, enc_log, accepted, last_read, mismatch_seen,
              last_write, ops, budget>>

pairVars == <<b_conn, b_log>>

engVars == <<tunnels, eng_last, eng_ops>>

frameVars == <<ws_in, rlp, frame_last>>

hskVars == <<hsk>>

mgrVars == <<sockets, mgr_last, mgr_ids>>

tunVars == <<tasks, guard, chan_log, stalled>>

codecVars == <<codec>>

adVars == <<ad, rd, wr, ad_last>>

cnVars == <<connects>>

wkVars == <<wk>>

rcVars == <<rc>>

lateVars == <<cnVars, wkVars, rcVars>>

moreVars == <<codecVars, adVars, lateVars>>

auxVars == <<frameVars, hskVars, mgrVars, tunVars, moreVars>>

\* Everything but frameVars; everything but the channel and hskVars;
\* everything but the mapping and mgrVars
exceptFrame == <<chanVars, pairVars, engVars, hskVars, mgrVars, tunVars, moreVars>>

exceptHsk == <<pairVars, engVars, frameVars, mgrVars, tunVars, moreVars>>

exceptMgr == <<chanVars, pairVars, eng_last, eng_ops, frameVars, hskVars, tunVars,
               moreVars>>

exceptTun == <<chanVars, pairVars, engVars, frameVars, hskVars, mgrVars, moreVars>>

exceptCodec == <<chanVars, pairVars, engVars, frameVars, hskVars, mgrVars, tunVars,
                 adVars, lateVars>>

exceptAd == <<chanVars, pairVars, engVars, frameVars, hskVars, mgrVars, tunVars,
              codecVars, lateVars>>

exceptCn == <<chanVars, pairVars, engVars, frameVars, hskVars, mgrVars, tunVars,
              codecVars, adVars, wkVars, rcVars>>

exceptWk == <<chanVars, pairVars, engVars, frameVars, hskVars, mgrVars, tunVars,
              codecVars, adVars, cnVars, rcVars>>

exceptRc == <<chanVars, pairVars, engVars, frameVars, hskVars, mgrVars, tunVars,
              codecVars, adVars, cnVars, wkVars>>

(***************************************************************************)
(* Nonces: byte arrays, most significant byte first.                       *)
(***************************************************************************)
Byte == 0 .. (ByteMod - 1)

Nonces == [1 .. NONCE_SIZE -> Byte]

RECURSIVE Pow(_, _)
Pow(b, e) == IF e = 0 THEN 1 ELSE b * Pow(b, e - 1)

NonceSpace == Pow(ByteMod, NONCE_SIZE)

\* The value of a byte array read as a big-endian integer.
RECURSIVE BigEndian(_)
BigEndian(n) ==
    IF Len(n) = 0 THEN 0
    ELSE BigEndian(SubSeq(n, 1, Len(n) - 1)) * ByteMod + n[Len(n)]

AllZeros == [i \in 1 .. NONCE_SIZE |-> 0]

AllOnes == [i \in 1 .. NONCE_SIZE |-> ByteMod - 1]

\* u8::wrapping_add(1)
WrappingAdd1(b) == (b + 1) % ByteMod

\* An increment that visits the bytes first to last (little-endian carry)
RECURSIVE IncFromFront(_, _)
IncFromFront(n, i) ==
    IF i > Len(n) THEN n
    ELSE LET m == [n EXCEPT ![i] = WrappingAdd1(n[i])]
         IN  IF m[i] # 0 THEN m ELSE IncFromFront(m, i + 1)

increment_nonce_forward(n) == IncFromFront(n, 1)

\* The loop of increment_nonce: bytes visited last to first, stopping at the
\* first byte that did not wrap to 0.
RECURSIVE IncFrom(_, _)
IncFrom(n, i) ==
    IF i = 0 THEN n
    ELSE LET m == [n EXCEPT ![i] = WrappingAdd1(n[i])]
         IN  IF m[i] # 0 THEN m ELSE IncFrom(m, i - 1)

increment_nonce(n) == IncFrom(n, Len(n))

(***************************************************************************)
(* Symbolic ChaCha20-Poly1305 and HKDF: a ciphertext remembers the key and *)
(* nonce it was sealed under and whether its bytes are still intact; a key *)
(* is the pair of HKDF inputs that differ between the two directions.      *)
(***************************************************************************)
CLIENT_KEY_INFO == "RDSEC_KEY_CLIENT"

SERVER_KEY_INFO == "RDSEC_KEY_SERVER"

derive_key(salt, info) == [salt |-> salt, info |-> info]

\* client_handshake: encrypt key from client_nonce || server_nonce
EncryptKey(cn, sn) == derive_key(cn \o sn, CLIENT_KEY_INFO)

\* client_handshake: decrypt key from server_nonce || client_nonce
DecryptKey(cn, sn) == derive_key(sn \o cn, SERVER_KEY_INFO)

Encrypt(key, nonce, pt) ==
    [key |-> key, nonce |-> nonce, pt |-> pt, intact |-> TRUE]

\* The length of a ciphertext: the plaintext's length plus the 16-byte tag
ciphertext_len(ct) == Len(ct.pt) + 16

\* Ok(plaintext) iff the tag verifies under this key and nonce
DecryptOk(key, nonce, ct) ==
    ct.intact /\ ct.key = key /\ ct.nonce = nonce

\* proto::EncryptedData
EncryptedData(nonce, payload) == [nonce |-> nonce, payload |-> payload]

Min(a, b) == IF a < b THEN a ELSE b

RECURSIVE SeqsUpTo(_, _)
SeqsUpTo(S, n) ==
    IF n = 0 THEN {<<>>}
    ELSE LET shorter == SeqsUpTo(S, n - 1)
         IN  shorter \cup {Append(s, x) : s \in {t \in shorter : Len(t) = n - 1}, x \in S}

\* Buffers a caller may pass to write()
Plaintexts == SeqsUpTo({7}, MaxPt)

NoNonce == <<>>

Idle == [pc |-> "idle"]

NoWrite == [res |-> "none"]

NoRead == [res |-> "none"]

\* The handshake nonces the model draws: the values around the wrap of the
\* counter and one away from it.
HandshakeNonces == {AllZeros, AllOnes, [AllOnes EXCEPT ![NONCE_SIZE] = ByteMod - 2]}

\* A handshake that starts each counter from the other side's nonce
client_handshake_swapped(cn, sn) ==
    /\ hs = "none"
    /\ hs' = "done"
    /\ client_nonce' = cn
    /\ server_nonce' = sn
    /\ encrypt_nonce' = sn
    /\ decrypt_nonce' = cn
    /\ UNCHANGED <<wfut, wire_out, enc_log, accepted, last_read, mismatch_seen,
                   last_write, ops, budget>>
    /\ UNCHANGED <<pairVars, engVars, auxVars>>

(***************************************************************************)
(* SecureConnection::client_handshake, the successful return: the channel  *)
(* starts from the ClientInit nonce and the ServerInit nonce.              *)
(***************************************************************************)
client_handshake(cn, sn) ==
    /\ hs = "none"
    /\ hs' = "done"
    /\ client_nonce' = cn
    /\ server_nonce' = sn
    /\ encrypt_nonce' = cn
    /\ decrypt_nonce' = sn
    /\ UNCHANGED <<wfut, wire_out, enc_log, accepted, last_read, mismatch_seen,
                   last_write, ops, budget>>
    /\ UNCHANGED <<pairVars, engVars, auxVars>>

(***************************************************************************)
(* SecureConnection::write.  The first poll of the future increments       *)
(* encrypt_nonce, seals the buffer and builds the frame before it reaches  *)
(* the first await; write_length_prefixed then hands the 4-byte length and *)
(* the body to the transport with one poll_write each.  o1 and o2 are what *)
(* the transport answers to the next two poll_write calls.                 *)
(***************************************************************************)
PollOutcomes == {"ok", "pending", "err"}

\* What write() returned (or that its future was dropped), for the history
Returned(f, res, on_wire) ==
    [res |-> res, call |-> f.call, on_wire |-> on_wire,
     enc_before |-> f.enc_before, enc_after |-> encrypt_nonce',
     dec_before |-> f.dec_before, dec_after |-> decrypt_nonce']

\* write_length_prefixed from the point the future f is suspended at (or
\* starts from), under the transport's answers o1, o2
WriteProgress(f, o1, o2) ==
    LET lenMsg  == [call |-> f.call, part |-> "len"]
        bodyMsg == [call |-> f.call, part |-> "body", msg |-> f.msg]
        body(o, wire) ==
            CASE o = "pending" ->
                    /\ wfut' = [f EXCEPT !.pc = "body"]
                    /\ wire_out' = wire
                    /\ last_write' = last_write
              [] o = "err" ->
                    /\ wfut' = Idle
                    /\ wire_out' = wire
                    /\ last_write' = Returned(f, "err", TRUE)
              [] OTHER ->
                    /\ wfut' = Idle
                    /\ wire_out' = Append(wire, bodyMsg)
                    /\ last_write' = Returned(f, "ok", TRUE)
    IN  IF f.pc = "body" THEN body(o1, wire_out)
        ELSE CASE o1 = "pending" ->
                    /\ wfut' = [f EXCEPT !.pc = "len"]
                    /\ wire_out' = wire_out
                    /\ last_write' = last_write
               [] o1 = "err" ->
                    /\ wfut' = Idle
                    /\ wire_out' = wire_out
                    /\ last_write' = Returned(f, "err", FALSE)
               [] OTHER -> body(o2, Append(wire_out, lenMsg))

\* write(): the call and the first poll of its future
write(buf, o1, o2) ==
    /\ hs = "done"
    /\ wfut = Idle
    /\ ops < budget
    /\ LET nonce == increment_nonce(encrypt_nonce)
           encrypted == Encrypt(EncryptKey(client_nonce, server_nonce), nonce, buf)
           f == [pc |-> "len", call |-> Len(enc_log) + 1,
                 msg |-> EncryptedData(nonce, encrypted),
                 enc_before |-> encrypt_nonce, dec_before |-> decrypt_nonce]
       IN  /\ encrypt_nonce' = nonce
           /\ enc_log' = Append(enc_log, nonce)
           /\ decrypt_nonce' = decrypt_nonce
           /\ WriteProgress(f, o1, o2)
    /\ ops' = ops + 1
    /\ UNCHANGED <<hs, client_nonce, server_nonce, accepted, last_read,
                   mismatch_seen, budget>>
    /\ UNCHANGED <<pairVars, engVars, auxVars>>

\* a later poll of a suspended write future
write_poll(o1, o2) ==
    /\ wfut # Idle
    /\ UNCHANGED <<encrypt_nonce, decrypt_nonce>>
    /\ WriteProgress(wfut, o1, o2)
    /\ UNCHANGED <<hs, client_nonce, server_nonce, enc_log, accepted, last_read,
                   mismatch_seen, ops, budget>>
    /\ UNCHANGED <<pairVars, engVars, auxVars>>

\* the caller drops a suspended write future (cancellation)
write_drop ==
    /\ wfut # Idle
    /\ wfut' = Idle
    /\ UNCHANGED <<encrypt_nonce, decrypt_nonce>>
    /\ last_write' = Returned(wfut, "dropped", wfut.pc = "body")
    /\ UNCHANGED <<hs, client_nonce, server_nonce, wire_out, enc_log, accepted,
                   last_read, mismatch_seen, ops, budget>>
    /\ UNCHANGED <<pairVars, engVars, auxVars>>

(***************************************************************************)
(* The relay's side of the channel.  Its i-th frame is sealed under the    *)
(* server-to-client key with the ServerInit nonce advanced i - 1 times;    *)
(* the network may hand the reader any of these frames in any order and    *)
(* any number of times, a frame with altered bytes, or a failure.          *)
(***************************************************************************)
RECURSIVE FromBigEndian(_, _)
FromBigEndian(v, len) ==
    IF len = 0 THEN <<>>
    ELSE Append(FromBigEndian(v \div ByteMod, len - 1), v % ByteMod)

\* n + k as a NONCE_SIZE-byte big-endian integer
NoncePlus(n, k) == FromBigEndian((BigEndian(n) + k) % NonceSpace, Len(n))

\* The plaintext of the relay's i-th frame
PeerPt(i) == <<i>>

PeerFrame(i) ==
    LET n == NoncePlus(server_nonce, i - 1)
    IN  EncryptedData(n, Encrypt(DecryptKey(client_nonce, server_nonce), n, PeerPt(i)))

\* What the network can make one read() see
ReadSources ==
    [kind : {"peer", "tampered", "relabelled"}, idx : 1 .. MaxSent]
        \cup [kind : {"reflected", "short_nonce", "io_error", "too_large", "garbage"},
              idx : {0}]

\* The outcome of read_length_prefixed and decode_message for a source
Delivered(src) ==
    CASE src.kind = "peer" -> [kind |-> "frame", frame |-> PeerFrame(src.idx)]
      [] src.kind = "tampered" ->
            [kind |-> "frame",
             frame |-> [PeerFrame(src.idx) EXCEPT !.payload.intact = FALSE]]
      [] src.kind = "relabelled" ->
            [kind |-> "frame",
             frame |-> EncryptedData(decrypt_nonce, PeerFrame(src.idx).payload)]
      [] src.kind = "reflected" ->
            [kind |-> "frame",
             frame |-> EncryptedData(decrypt_nonce,
                          Encrypt(EncryptKey(client_nonce, server_nonce),
                                  decrypt_nonce, <<>>))]
      [] src.kind = "short_nonce" ->
            [kind |-> "frame",
             frame |-> EncryptedData(SubSeq(decrypt_nonce, 1, NONCE_SIZE - 1),
                          PeerFrame(1).payload)]
      [] OTHER -> [kind |-> src.kind]

Err(dn, what) == [res |-> what, dn |-> dn, data |-> <<>>, wire_nonce |-> NoNonce]

\* A read that hands out the payload without looking at the result of decrypt
read_unauthenticated(dn, key, input, buflen) ==
    IF input.kind # "frame" THEN Err(dn, input.kind)
    ELSE IF Len(input.frame.nonce) # NONCE_SIZE THEN Err(dn, "invalid nonce size")
    ELSE IF input.frame.nonce # dn THEN Err(dn, "nonce mismatch")
    ELSE [res |-> "ok", dn |-> increment_nonce(dn),
          data |-> SubSeq(input.frame.payload.pt, 1,
                          Min(buflen, Len(input.frame.payload.pt))),
          wire_nonce |-> input.frame.nonce]

\* A read that advances the counter as soon as the nonce matched, before the
\* payload is authenticated
read_eager_increment(dn, key, input, buflen) ==
    IF input.kind # "frame" THEN Err(dn, input.kind)
    ELSE IF Len(input.frame.nonce) # NONCE_SIZE THEN Err(dn, "invalid nonce size")
    ELSE IF input.frame.nonce # dn THEN Err(dn, "nonce mismatch")
    ELSE IF ~DecryptOk(key, dn, input.frame.payload)
       THEN Err(increment_nonce(dn), "decryption failed")
    ELSE [res |-> "ok", dn |-> increment_nonce(dn),
          data |-> SubSeq(input.frame.payload.pt, 1,
                          Min(buflen, Len(input.frame.payload.pt))),
          wire_nonce |-> input.frame.nonce]

\* A read that leaves the counter alone when the buffer was too short for
\* the message
read_truncated_keeps_nonce(dn, key, input, buflen) ==
    IF input.kind # "frame" THEN Err(dn, input.kind)
    ELSE IF Len(input.frame.nonce) # NONCE_SIZE THEN Err(dn, "invalid nonce size")
    ELSE IF input.frame.nonce # dn THEN Err(dn, "nonce mismatch")
    ELSE IF ~DecryptOk(key, dn, input.frame.payload) THEN Err(dn, "decryption failed")
    ELSE LET decrypted == input.frame.payload.pt
             to_copy == Min(buflen, Len(decrypted))
         IN  [res |-> "ok",
              dn |-> IF to_copy < Len(decrypted) THEN dn ELSE increment_nonce(dn),
              data |-> SubSeq(decrypted, 1, to_copy),
              wire_nonce |-> input.frame.nonce]

\* SecureConnection::read on a connection whose decrypt_nonce is dn and whose
\* decrypt key is key: the result, the new decrypt_nonce, the bytes copied
\* into a buffer of buflen bytes
read(dn, key, input, buflen) ==
    IF input.kind # "frame" THEN Err(dn, input.kind)
    ELSE LET encrypted_data == input.frame
         IN  IF Len(encrypted_data.nonce) # NONCE_SIZE
                THEN Err(dn, "invalid nonce size")
             ELSE IF encrypted_data.nonce # dn
                THEN Err(dn, "nonce mismatch")
             ELSE IF ~DecryptOk(key, dn, encrypted_data.payload)
                THEN Err(dn, "decryption failed")
             ELSE LET decrypted == encrypted_data.payload.pt
                      to_copy == Min(buflen, Len(decrypted))
                  IN  [res |-> "ok", dn |-> increment_nonce(dn),
                       data |-> SubSeq(decrypted, 1, to_copy),
                       wire_nonce |-> encrypted_data.nonce]

\* The buffer the connection's owner reads into (Tunnel::receive_response)
ReadBuf == MaxPt

\* read() on the client connection, run to its return
client_read(src) ==
    /\ hs = "done"
    /\ wfut = Idle
    /\ ops < budget
    /\ LET r == read(decrypt_nonce, DecryptKey(client_nonce, server_nonce),
                     Delivered(src), ReadBuf)
       IN  /\ decrypt_nonce' = r.dn
           /\ last_read' = [res |-> r.res, src |-> src, data |-> r.data,
                            dec_before |-> decrypt_nonce, dec_after |-> r.dn,
                            enc_before |-> encrypt_nonce, enc_after |-> encrypt_nonce]
           /\ mismatch_seen' = (mismatch_seen \/ r.res = "nonce mismatch")
           /\ accepted' = IF r.res = "ok"
                          THEN Append(accepted, [frame |-> Delivered(src).frame,
                                                 nonce |-> r.wire_nonce])
                          ELSE accepted
    /\ ops' = ops + 1
    /\ UNCHANGED <<hs, client_nonce, server_nonce, encrypt_nonce, wfut, wire_out,
                   enc_log, last_write, budget>>
    /\ UNCHANGED <<pairVars, engVars, auxVars>>

\* a read future suspended in read_length_prefixed (nothing queued yet) is
\* dropped by the caller
read_drop ==
    /\ hs = "done"
    /\ wfut = Idle
    /\ ops < budget
    /\ last_read' = [res |-> "dropped", src |-> [kind |-> "none", idx |-> 0],
                     data |-> <<>>,
                     dec_before |-> decrypt_nonce, dec_after |-> decrypt_nonce,
                     enc_before |-> encrypt_nonce, enc_after |-> encrypt_nonce]
    /\ ops' = ops + 1
    /\ UNCHANGED <<hs, client_nonce, server_nonce, encrypt_nonce, decrypt_nonce,
                   wfut, wire_out, enc_log, accepted, mismatch_seen, last_write,
                   budget>>
    /\ UNCHANGED <<pairVars, engVars, auxVars>>

ChanInit ==
    /\ hs = "none"
    /\ client_nonce = NoNonce
    /\ server_nonce = NoNonce
    /\ encrypt_nonce = NoNonce
    /\ decrypt_nonce = NoNonce
    /\ wfut = Idle
    /\ wire_out = <<>>
    /\ enc_log = <<>>
    /\ accepted = <<>>
    /\ last_read = NoRead
    /\ mismatch_seen = FALSE
    /\ last_write = NoWrite
    /\ ops = 0

PairIdle ==
    /\ b_conn = [decrypt_nonce |-> NoNonce, pos |-> 0]
    /\ b_log = <<>>

EngineIdle ==
    /\ tunnels = <<>>
    /\ eng_last = <<>>
    /\ eng_ops = 0

\* No WebSocketStream under observation, no framing call made
FrameIdle ==
    /\ ws_in = <<>>
    /\ rlp = <<>>
    /\ frame_last = <<>>

\* No client_handshake call observed
HskIdle == hsk = <<>>

\* TunnelManager::new: no transport opened, no call made
MgrIdle ==
    /\ sockets = <<>>
    /\ mgr_last = <<>>
    /\ mgr_ids = {}

\* A tunnel nobody has called yet
TunIdle ==
    /\ tasks = <<>>
    /\ guard = 0
    /\ chan_log = <<>>
    /\ stalled = FALSE

\* No packet encoded or decoded yet
CodecIdle == codec = <<>>

\* No stream under observation
AdIdle == ad = <<>> /\ rd = <<>> /\ wr = <<>> /\ ad_last = <<>>

\* No connect called yet
CnIdle == connects = <<>>

\* No stream under step-wise observation
WkIdle == wk = <<>>

\* No relay client yet
RcIdle == rc = <<>>

LateIdle == CnIdle /\ WkIdle /\ RcIdle

MoreIdle == CodecIdle /\ AdIdle /\ LateIdle

AuxIdle == FrameIdle /\ HskIdle /\ MgrIdle /\ TunIdle /\ MoreIdle

Handshake ==
    \E cn \in HandshakeNonces, sn \in HandshakeNonces : client_handshake(cn, sn)

Writes ==
    \/ \E buf \in Plaintexts, o1 \in PollOutcomes, o2 \in PollOutcomes : write(buf, o1, o2)
    \/ \E o1 \in PollOutcomes, o2 \in PollOutcomes : write_poll(o1, o2)
    \/ write_drop

Reads ==
    \/ \E src \in ReadSources : client_read(src)
    \/ read_drop

(***************************************************************************)
(* Spec: one client connection, reading and writing.                       *)
(***************************************************************************)
Init == ChanInit /\ budget = MaxOps /\ PairIdle /\ EngineIdle /\ AuxIdle

Next == Handshake \/ Writes \/ Reads

Spec == Init /\ [][Next]_vars

(***************************************************************************)
(* SpecWrites, SpecReads: the same connection used in one direction only,  *)
(* for one call more than the nonce counter has values.                    *)
(***************************************************************************)
InitLong == ChanInit /\ budget = NonceSpace + 1 /\ PairIdle /\ EngineIdle /\ AuxIdle

NextWrites == Handshake \/ Writes

SpecWrites == InitLong /\ [][NextWrites]_vars

NextReads == Handshake \/ Reads

SpecReads == InitLong /\ [][NextReads]_vars

(***************************************************************************)
(* SpecPair: a second SecureConnection running the same read() is attached *)
(* to the wire the client connection writes to (a loopback that accepts    *)
(* every poll_write).  It holds the client's encrypt key as its decrypt    *)
(* key and takes its decrypt_nonce from the client's handshake nonce, the  *)
(* way client_handshake takes decrypt_nonce from the peer's Init nonce.    *)
(***************************************************************************)
BodyFrames == SelectSeq(wire_out, LAMBDA m : m.part = "body")

b_attach ==
    /\ hs = "done"
    /\ b_conn.decrypt_nonce = NoNonce
    /\ b_conn' = [decrypt_nonce |-> client_nonce, pos |-> 0]
    /\ UNCHANGED <<chanVars, b_log, engVars, auxVars>>

\* read() on the second connection, of the next frame on the loopback
b_read(buflen) ==
    /\ b_conn.decrypt_nonce # NoNonce
    /\ b_conn.pos < Len(BodyFrames)
    /\ LET frame == BodyFrames[b_conn.pos + 1].msg
           r == read(b_conn.decrypt_nonce, EncryptKey(client_nonce, server_nonce),
                     [kind |-> "frame", frame |-> frame], buflen)
       IN  /\ b_conn' = [decrypt_nonce |-> r.dn, pos |-> b_conn.pos + 1]
           /\ b_log' = Append(b_log, [sent |-> frame.payload.pt, buflen |-> buflen,
                                      res |-> r.res, data |-> r.data,
                                      dn_before |-> b_conn.decrypt_nonce,
                                      dn_after |-> r.dn])
    /\ UNCHANGED <<chanVars, engVars, auxVars>>

InitPair == ChanInit /\ budget = MaxPairOps /\ PairIdle /\ EngineIdle /\ AuxIdle

NextPair ==
    \/ Handshake
    \/ b_attach
    \/ \E buf \in Plaintexts : write(buf, "ok", "ok")
    \/ \E buflen \in 0 .. MaxPt : b_read(buflen)

SpecPair == InitPair /\ [][NextPair]_vars

(***************************************************************************)
(* SpecEngine: the ProxyEngine's calls on the TunnelManager mapping.  Each *)
(* call runs to its return; what the relay and the transport do to it is   *)
(* an input: whether create_tunnel succeeds and which id it draws, whether *)
(* send_request fails, and what receive_response returns.  A tunnel's      *)
(* failed flag is history: a read or write on its channel has failed.      *)
(***************************************************************************)
NumIds == 2

TunnelIds == 1 .. NumIds

ProtocolType == {"Http", "WebSocket", "Tcp"}

\* What Tunnel::send_request can return: Ok, the packet's encoding error, or
\* the channel's write error
SendOutcomes == {"ok", "encode_err", "chan_err"}

\* What Tunnel::receive_response can return: the channel's read error, one of
\* its own errors (empty read, undecodable packet, request payload), or a
\* ProxyResponse variant
RecvErrors == {"chan_err", "closed", "decode_err", "unexpected_packet"}

Responses == {"http", "ws_opened", "ws_message", "ws_closed",
              "tcp_connected", "tcp_data", "tcp_closed", "error"}

RecvOutcomes == RecvErrors \cup Responses

NoTunnels == [id \in {} |-> 0]

\* HashMap::insert
Insert(map, id, t) ==
    [k \in DOMAIN map \cup {id} |-> IF k = id THEN t ELSE map[k]]

\* A remove_tunnel that retains the entry it was to remove
remove_tunnel_retain(map, id) == [k \in DOMAIN map \cap {id} |-> map[k]]

\* TunnelManager::remove_tunnel
remove_tunnel(map, id) == [k \in DOMAIN map \ {id} |-> map[k]]

\* TunnelManager::create_tunnel, the successful return
create_tunnel(map, id, protocol) ==
    Insert(map, id, [protocol |-> protocol, failed |-> FALSE])

\* The mapping after a channel operation on tunnel id ended with outcome o
AfterIo(map, id, o) ==
    IF o = "chan_err" /\ id \in DOMAIN map
    THEN [map EXCEPT ![id].failed = TRUE]
    ELSE map

EngReturn(op, id, res, chan_err, reused) ==
    /\ eng_last' = [op |-> op, id |-> id, res |-> res, chan_err |-> chan_err,
                    reused |-> reused]
    /\ eng_ops' = eng_ops + 1
    /\ UNCHANGED <<chanVars, pairVars, auxVars>>

\* The shared shape of open_websocket and connect_tcp: create, send, receive,
\* keep the tunnel on the expected response and remove it on any other
OpenTunnel(op, protocol, expected, created, id, so, ro) ==
    IF ~created
    THEN tunnels' = tunnels /\ EngReturn(op, 0, "err", FALSE, FALSE)
    ELSE LET t0 == create_tunnel(tunnels, id, protocol)
             t1 == AfterIo(t0, id, so)
             t2 == AfterIo(t1, id, ro)
         IN  IF so # "ok"
             THEN tunnels' = t1 /\ EngReturn(op, id, "err", so = "chan_err", FALSE)
             ELSE IF ro \in RecvErrors
             THEN tunnels' = t2 /\ EngReturn(op, id, "err", ro = "chan_err", FALSE)
             ELSE IF ro = expected
             THEN tunnels' = t2 /\ EngReturn(op, id, "ok", FALSE, FALSE)
             ELSE tunnels' = remove_tunnel(t2, id)
                     /\ EngReturn(op, id, "err", FALSE, FALSE)

\* ProxyEngine::handle_http_request
handle_http_request(valid, created, id, so, ro) ==
    /\ eng_ops < MaxEngineOps
    /\ IF ~valid \/ ~created
       THEN tunnels' = tunnels /\ EngReturn("handle_http_request", 0, "err", FALSE, FALSE)
       ELSE LET t0 == create_tunnel(tunnels, id, "Http")
                t1 == AfterIo(t0, id, so)
                t2 == AfterIo(t1, id, ro)
            IN  IF so # "ok"
                THEN tunnels' = t1
                        /\ EngReturn("handle_http_request", id, "err",
                                     so = "chan_err", FALSE)
                ELSE IF ro \in RecvErrors
                THEN tunnels' = t2
                        /\ EngReturn("handle_http_request", id, "err",
                                     ro = "chan_err", FALSE)
                ELSE tunnels' = remove_tunnel(t2, id)
                        /\ EngReturn("handle_http_request", id,
                                     IF ro = "http" THEN "ok" ELSE "err", FALSE, FALSE)

\* ProxyEngine::open_websocket
open_websocket(valid, created, id, so, ro) ==
    /\ eng_ops < MaxEngineOps
    /\ OpenTunnel("open_websocket", "WebSocket", "ws_opened", valid /\ created, id, so, ro)

\* ProxyEngine::connect_tcp
connect_tcp(valid, created, id, so, ro) ==
    /\ eng_ops < MaxEngineOps
    /\ OpenTunnel("connect_tcp", "Tcp", "tcp_connected", valid /\ created, id, so, ro)

\* ProxyEngine::send_websocket_message
send_websocket_message(id, valid, so) ==
    /\ eng_ops < MaxEngineOps
    /\ IF id \notin DOMAIN tunnels \/ ~valid
       THEN tunnels' = tunnels
               /\ EngReturn("send_websocket_message", id, "err", FALSE, FALSE)
       ELSE /\ tunnels' = AfterIo(tunnels, id, so)
            /\ EngReturn("send_websocket_message", id,
                         IF so = "ok" THEN "ok" ELSE "err", so = "chan_err",
                         tunnels[id].failed)

\* ProxyEngine::receive_websocket_message
receive_websocket_message(id, ro) ==
    /\ eng_ops < MaxEngineOps
    /\ IF id \notin DOMAIN tunnels
       THEN tunnels' = tunnels
               /\ EngReturn("receive_websocket_message", id, "err", FALSE, FALSE)
       ELSE /\ tunnels' = AfterIo(tunnels, id, ro)
            /\ EngReturn("receive_websocket_message", id,
                         IF ro \in {"ws_message", "ws_closed"} THEN "ok" ELSE "err",
                         ro = "chan_err", tunnels[id].failed)

\* ProxyEngine::close_websocket
close_websocket(id, so) ==
    /\ eng_ops < MaxEngineOps
    /\ IF id \notin DOMAIN tunnels
       THEN tunnels' = tunnels /\ EngReturn("close_websocket", id, "err", FALSE, FALSE)
       ELSE IF so # "ok"
       THEN tunnels' = AfterIo(tunnels, id, so)
               /\ EngReturn("close_websocket", id, "err", so = "chan_err",
                            tunnels[id].failed)
       ELSE tunnels' = remove_tunnel(tunnels, id)
               /\ EngReturn("close_websocket", id, "ok", FALSE, tunnels[id].failed)

InitEngine ==
    /\ ChanInit /\ budget = 0 /\ PairIdle /\ AuxIdle
    /\ tunnels = NoTunnels
    /\ eng_last = [op |-> "none", id |-> 0, res |-> "ok", chan_err |-> FALSE,
                   reused |-> FALSE]
    /\ eng_ops = 0

NextEngine ==
    \/ \E valid \in BOOLEAN, created \in BOOLEAN, id \in TunnelIds,
          so \in SendOutcomes, ro \in RecvOutcomes :
            \/ handle_http_request(valid, created, id, so, ro)
            \/ open_websocket(valid, created, id, so, ro)
            \/ connect_tcp(valid, created, id, so, ro)
    \/ \E id \in TunnelIds, valid \in BOOLEAN, so \in SendOutcomes :
            \/ send_websocket_message(id, valid, so)
            \/ close_websocket(id, so)
    \/ \E id \in TunnelIds, ro \in RecvOutcomes : receive_websocket_message(id, ro)

SpecEngine == InitEngine /\ [][NextEngine]_vars

(***************************************************************************)
(* SpecFrame: length-prefixed framing over a WebSocketStream.  The peer's  *)
(* byte stream reaches read_buffer in messages of any size (onmessage);    *)
(* onclose and onerror end it.  A poll of the read_length_prefixed future  *)
(* runs until it returns or finds read_buffer empty; the handlers run      *)
(* between polls.                                                          *)
(***************************************************************************)
PREFIX_SIZE == 4

MAX_RAW_PACKET_SIZE == 1

MaxStream == 6

MaxDataLen == 3

MaxFrameWrites == 2

\* u32::to_be_bytes
to_be_bytes(len) == FromBigEndian(len, PREFIX_SIZE)

\* u32::from_be_bytes
from_be_bytes(bytes) == BigEndian(bytes)

\* Number of values of a u32 (and of a usize on wasm32)
U32Space == Pow(ByteMod, PREFIX_SIZE)

Take(q, k) == SubSeq(q, 1, k)

Drop(q, k) == SubSeq(q, k + 1, Len(q))

\* The bytes of the peer's stream the socket has not delivered yet
Incoming(t) == Drop(t.stream, t.delivered)

\* The number of stream bytes read out of read_buffer so far
Consumed(t) == t.delivered - Len(t.read_buffer)

\* WebSocketStream::connect: the fields of a connected stream, with the bytes
\* the peer is going to send
Connected(stream) ==
    [stream |-> stream, delivered |-> 0, read_buffer |-> <<>>,
     closed |-> FALSE, error |-> FALSE, sent |-> <<>>]

\* The onmessage handler, for a binary message of the next k bytes
onmessage(k) ==
    /\ ws_in # <<>>
    /\ ~ws_in.closed
    /\ k \in 1 .. Len(Incoming(ws_in))
    /\ ws_in' = [ws_in EXCEPT !.delivered = @ + k,
                              !.read_buffer = @ \o Take(Incoming(ws_in), k)]
    /\ UNCHANGED <<rlp, frame_last>>
    /\ UNCHANGED exceptFrame

\* The onclose handler
onclose ==
    /\ ws_in # <<>>
    /\ ~ws_in.closed
    /\ ws_in' = [ws_in EXCEPT !.closed = TRUE]
    /\ UNCHANGED <<rlp, frame_last>>
    /\ UNCHANGED exceptFrame

\* The onerror handler
onerror ==
    /\ ws_in # <<>>
    /\ ~ws_in.error
    /\ ws_in' = [ws_in EXCEPT !.closed = TRUE, !.error = TRUE]
    /\ UNCHANGED <<rlp, frame_last>>
    /\ UNCHANGED exceptFrame

\* A poll_read that reports EOF as soon as the closed latch is set
poll_read_eof_on_close(t, buflen) ==
    IF t.error THEN [res |-> "Other", bytes |-> <<>>, t |-> t]
    ELSE IF t.closed THEN [res |-> "ready", bytes |-> <<>>, t |-> t]
    ELSE IF t.read_buffer = <<>> THEN [res |-> "pending", bytes |-> <<>>, t |-> t]
    ELSE LET to_copy == Min(buflen, Len(t.read_buffer))
         IN  [res |-> "ready", bytes |-> Take(t.read_buffer, to_copy),
              t |-> [t EXCEPT !.read_buffer = Drop(@, to_copy)]]

\* A poll_read that hands over min(buf.len(), read_buffer.len()) bytes and
\* discards the rest of read_buffer
poll_read_discard(t, buflen) ==
    IF t.error THEN [res |-> "Other", bytes |-> <<>>, t |-> t]
    ELSE IF t.read_buffer = <<>>
    THEN [res |-> IF t.closed THEN "ready" ELSE "pending", bytes |-> <<>>, t |-> t]
    ELSE [res |-> "ready", bytes |-> Take(t.read_buffer, Min(buflen, Len(t.read_buffer))),
          t |-> [t EXCEPT !.read_buffer = <<>>]]

\* WebSocketStream::poll_read with a buffer of buflen bytes
poll_read(t, buflen) ==
    IF t.error THEN [res |-> "Other", bytes |-> <<>>, t |-> t]
    ELSE IF t.read_buffer = <<>>
    THEN [res |-> IF t.closed THEN "ready" ELSE "pending", bytes |-> <<>>, t |-> t]
    ELSE LET to_copy == Min(buflen, Len(t.read_buffer))
         IN  [res |-> "ready", bytes |-> Take(t.read_buffer, to_copy),
              t |-> [t EXCEPT !.read_buffer = Drop(@, to_copy)]]

\* AsyncReadExt::read_exact, one poll: got are the bytes gathered by earlier
\* polls, need the bytes still missing
RECURSIVE read_exact(_, _, _)
read_exact(t, got, need) ==
    IF need = 0 THEN [res |-> "ok", got |-> got, t |-> t]
    ELSE LET r == poll_read(t, need)
         IN  IF r.res # "ready" THEN [res |-> r.res, got |-> got, t |-> t]
             ELSE IF r.bytes = <<>> THEN [res |-> "UnexpectedEof", got |-> got, t |-> t]
             ELSE read_exact(r.t, got \o r.bytes, need - Len(r.bytes))

\* A length check that also refuses a prefix equal to the limit
too_large_at_limit(len) == len >= MAX_RAW_PACKET_SIZE

\* read_length_prefixed: len > MAX_RAW_PACKET_SIZE
too_large(len) == len > MAX_RAW_PACKET_SIZE

\* A fresh read_length_prefixed future on transport t
NewRlp(t) ==
    [pc |-> "len", len_buf |-> <<>>, len |-> 0, data |-> <<>>,
     allocated |-> FALSE, start |-> Consumed(t), polled_closed |-> FALSE]

\* read_length_prefixed, one poll of the future f, from `let mut data` on
rlp_body(t, f) ==
    LET r == read_exact(t, f.data, f.len - Len(f.data))
    IN  [res |-> r.res, t |-> r.t, f |-> [f EXCEPT !.data = r.got]]

\* read_length_prefixed, one poll of the future f on transport t
rlp_run(t, f) ==
    IF f.pc = "body" THEN rlp_body(t, f)
    ELSE LET r == read_exact(t, f.len_buf, PREFIX_SIZE - Len(f.len_buf))
             len == from_be_bytes(r.got)
         IN  IF r.res # "ok"
             THEN [res |-> r.res, t |-> r.t, f |-> [f EXCEPT !.len_buf = r.got]]
             ELSE IF too_large(len)
             THEN [res |-> "packet too large", t |-> r.t,
                   f |-> [f EXCEPT !.len_buf = r.got, !.len = len]]
             ELSE rlp_body(r.t, [f EXCEPT !.pc = "body", !.len_buf = r.got,
                                          !.len = len, !.allocated = TRUE])

\* The effect of one poll: the future stays pending, or the call returns
RlpStep(f) ==
    LET r == rlp_run(ws_in, f)
    IN  /\ ws_in' = r.t
        /\ IF r.res = "pending"
           THEN /\ rlp' = [r.f EXCEPT !.polled_closed = ws_in.closed]
                /\ UNCHANGED frame_last
           ELSE /\ rlp' = <<>>
                /\ frame_last' = [op |-> "read", res |-> r.res, data |-> r.f.data,
                                  len_buf |-> r.f.len_buf, len |-> r.f.len,
                                  allocated |-> r.f.allocated, start |-> r.f.start,
                                  end |-> Consumed(r.t)]
        /\ UNCHANGED exceptFrame

\* read_length_prefixed: the call and the first poll of its future
read_length_prefixed ==
    /\ ws_in # <<>>
    /\ rlp = <<>>
    /\ RlpStep(NewRlp(ws_in))

\* A later poll of the pending read_length_prefixed future
rlp_poll ==
    /\ rlp # <<>>
    /\ RlpStep(rlp)

\* What WebSocket::send_with_u8_array can return
SendResults == {"ok", "err"}

\* A poll_write that looks at the closed latch before the error
poll_write_closed_first(t, msg, send) ==
    IF t.closed THEN [res |-> "BrokenPipe", t |-> t]
    ELSE IF t.error THEN [res |-> "Other", t |-> t]
    ELSE IF send = "ok" THEN [res |-> "ok", t |-> [t EXCEPT !.sent = Append(@, msg)]]
    ELSE [res |-> "Other", t |-> t]

\* WebSocketStream::poll_write of one buffer, once the socket's buffered
\* amount is below the backpressure limit: send is what the socket's send
\* returns if it is reached
poll_write(t, msg, send) ==
    IF t.error THEN [res |-> "Other", t |-> t]
    ELSE IF t.closed THEN [res |-> "BrokenPipe", t |-> t]
    ELSE IF send = "ok" THEN [res |-> "ok", t |-> [t EXCEPT !.sent = Append(@, msg)]]
    ELSE [res |-> "Other", t |-> t]

\* AsyncWriteExt::write_all: nothing to do for an empty buffer, else the
\* adapter takes the whole buffer as one message
write_all(t, msg, len, send) ==
    IF len = 0 THEN [res |-> "ok", t |-> t] ELSE poll_write(t, msg, send)

\* write_length_prefixed for data of datalen bytes, run to its return
write_length_prefixed(datalen, s1, s2) ==
    /\ ws_in # <<>>
    /\ Len(ws_in.sent) < 2 * MaxFrameWrites
    /\ LET len == datalen % U32Space
           r1 == write_all(ws_in, [part |-> "prefix", bytes |-> to_be_bytes(len)],
                           PREFIX_SIZE, s1)
           r2 == write_all(r1.t, [part |-> "body", len |-> datalen], datalen, s2)
           r == IF r1.res # "ok" THEN r1 ELSE r2
       IN  /\ ws_in' = r.t
           /\ frame_last' = [op |-> "write", res |-> r.res, datalen |-> datalen,
                             emitted |-> Len(r.t.sent) - Len(ws_in.sent)]
    /\ UNCHANGED rlp
    /\ UNCHANGED exceptFrame

InitFrame ==
    /\ ChanInit /\ budget = 0 /\ PairIdle /\ EngineIdle /\ HskIdle /\ MgrIdle /\ TunIdle
    /\ MoreIdle
    /\ ws_in \in {Connected(s) : s \in SeqsUpTo(Byte, MaxStream)}
    /\ rlp = <<>>
    /\ frame_last = <<>>

NextFrame ==
    \/ \E k \in 1 .. MaxStream : onmessage(k)
    \/ onclose
    \/ onerror
    \/ read_length_prefixed
    \/ rlp_poll

SpecFrame == InitFrame /\ [][NextFrame]_vars

(***************************************************************************)
(* SpecFrameWrite: write_length_prefixed calls on one WebSocketStream.     *)
(***************************************************************************)
InitFrameWrite ==
    /\ ChanInit /\ budget = 0 /\ PairIdle /\ EngineIdle /\ HskIdle /\ MgrIdle /\ TunIdle
    /\ MoreIdle
    /\ ws_in = Connected(<<>>)
    /\ rlp = <<>>
    /\ frame_last = <<>>

NextFrameWrite ==
    \/ onclose
    \/ onerror
    \/ \E datalen \in 0 .. MaxDataLen, s1 \in SendResults, s2 \in SendResults :
          write_length_prefixed(datalen, s1, s2)

SpecFrameWrite == InitFrameWrite /\ [][NextFrameWrite]_vars

(***************************************************************************)
(* SpecHandshake: client_handshake from the ClientInit it sends to its     *)
(* return.  What comes back on the transport is an input: an I/O or decode *)
(* failure, or a SignedPayload holding a ServerInitPayload.  A signature   *)
(* remembers the key that made it and the bytes it was made over; reply_to *)
(* is history: whether the server produced this ServerInit for this        *)
(* handshake's ClientInit or for an earlier one.                           *)
(***************************************************************************)
ProtocolVersion1 == 1

SERVER_PUBLIC_KEY_SIZE == 32

Versions == {0, 1, 2}

\* Long-term keys an identity can name: the relay's, someone else's, or bytes
\* that VerifyingKey::from_bytes refuses
PublicKeys == {"server", "other", "invalid"}

\* Option<Identity>: None, or Some with a public key
NoIdentity == [present |-> FALSE, public_key |-> "invalid"]

Identities == {NoIdentity} \cup [present : {TRUE}, public_key : PublicKeys]

ServerNonces == {AllZeros, AllOnes, Take(AllZeros, NONCE_SIZE - 1)}

ServerInitPayloads ==
    [version : Versions, nonce : ServerNonces, identity : Identities,
     session_public_key :
        {SERVER_PUBLIC_KEY_SIZE - 1, SERVER_PUBLIC_KEY_SIZE, SERVER_PUBLIC_KEY_SIZE + 1},
     reply_to : {"this", "earlier"}]

\* The payload with one byte (of the version field) changed
Flip(d) == [d EXCEPT !.version = (@ + 1) % 3]

SignedPayloads ==
    UNION {[data : {d},
            signature : [key : {"server", "other"}, over : {d, Flip(d)},
                         wellformed : BOOLEAN]] : d \in ServerInitPayloads}

HandshakeInputs ==
    [kind : {"write_err", "read_err", "decode_signed_err", "decode_init_err"}]
        \cup [kind : {"frame"}, signed : SignedPayloads]

\* verify_signature
verify_signature(identity, signed) ==
    IF identity.public_key = "invalid" THEN "invalid public key"
    ELSE IF ~signed.signature.wellformed THEN "invalid signature"
    ELSE IF signed.signature.key = identity.public_key
               /\ signed.signature.over = signed.data
    THEN "ok"
    ELSE "signature verification failed"

\* A validation that never calls verify_signature
validate_server_init_unsigned(signed) ==
    LET server_init == signed.data
    IN  IF server_init.version # ProtocolVersion1 THEN "invalid protocol version"
        ELSE IF ~server_init.identity.present THEN "missing identity"
        ELSE IF server_init.session_public_key # SERVER_PUBLIC_KEY_SIZE
        THEN "invalid server public key"
        ELSE IF Len(server_init.nonce) # NONCE_SIZE THEN "panic"
        ELSE "ok"

\* client_handshake from "Validate server init" to its return: the error it
\* returns, "panic" for the unwrap of a nonce of the wrong length, or "ok"
validate_server_init(signed) ==
    LET server_init == signed.data
    IN  IF server_init.version # ProtocolVersion1 THEN "invalid protocol version"
        ELSE IF ~server_init.identity.present THEN "missing identity"
        ELSE IF verify_signature(server_init.identity, signed) # "ok"
        THEN verify_signature(server_init.identity, signed)
        ELSE IF server_init.session_public_key # SERVER_PUBLIC_KEY_SIZE
        THEN "invalid server public key"
        ELSE IF Len(server_init.nonce) # NONCE_SIZE THEN "panic"
        ELSE "ok"

\* SecureConnection::client_handshake, the whole call; it takes the transport
\* by value, so there is one call per transport
client_handshake_call(cn, input) ==
    /\ hs = "none"
    /\ hsk = <<>>
    /\ LET res == IF input.kind = "frame" THEN validate_server_init(input.signed)
                  ELSE input.kind
       IN  /\ hsk' = [client_nonce |-> cn, input |-> input, res |-> res]
           /\ IF res = "ok"
              THEN /\ hs' = "done"
                   /\ client_nonce' = cn
                   /\ server_nonce' = input.signed.data.nonce
                   /\ encrypt_nonce' = cn
                   /\ decrypt_nonce' = input.signed.data.nonce
                   /\ UNCHANGED <<wfut, wire_out, enc_log, accepted, last_read,
                                  mismatch_seen, last_write, ops, budget>>
              ELSE UNCHANGED chanVars
    /\ UNCHANGED exceptHsk

InitHandshake == ChanInit /\ budget = 0 /\ PairIdle /\ EngineIdle /\ AuxIdle

NextHandshake ==
    \E cn \in HandshakeNonces, input \in HandshakeInputs : client_handshake_call(cn, input)

SpecHandshake == InitHandshake /\ [][NextHandshake]_vars

(***************************************************************************)
(* SpecManager: the TunnelManager's own operations, with the transports    *)
(* create_tunnel opens.  A tunnel lives while the mapping or a caller      *)
(* holds an Arc to it; when the last Arc goes, the SecureConnection and    *)
(* its WebSocketStream are dropped.                                        *)
(***************************************************************************)
MaxSockets == 2

MaxHeld == 1

\* The ways client_handshake can return Err inside create_tunnel
HandshakeFailures ==
    {"write_err", "read_err", "decode_signed_err", "decode_init_err"}
        \cup ({validate_server_init(sp) : sp \in SignedPayloads} \ {"ok", "panic"})

\* How a create_tunnel call can go: WebSocket::new throws, the open event
\* never comes, the handshake fails or panics, or all of it succeeds
CreateOutcomes == {"ok", "connect_err", "connect_hang", "panic"} \cup HandshakeFailures

\* A WebSocketStream just returned by connect, owned by the create_tunnel call
NewSocket ==
    [tunnel |-> 0, in_map |-> FALSE, held |-> 0, dropped |-> FALSE,
     close_called |-> FALSE]

\* Dropping a WebSocketStream: the type has no Drop impl, its fields are
\* released and nothing calls close on the socket
drop_stream(sock) == [sock EXCEPT !.dropped = TRUE]

\* Arc<Tunnel>: the tunnel and its transport go when no holder is left
DropIfUnheld(sock) ==
    IF sock.tunnel # 0 /\ ~sock.in_map /\ sock.held = 0 /\ ~sock.dropped
    THEN drop_stream(sock)
    ELSE sock

\* The mapping gives up its Arc for the tunnels stored under ids
Unmap(socks, ids) ==
    [k \in DOMAIN socks |->
        IF socks[k].in_map /\ socks[k].tunnel \in ids
        THEN DropIfUnheld([socks[k] EXCEPT !.in_map = FALSE])
        ELSE socks[k]]

\* A create_tunnel that stores the tunnel before the handshake has succeeded
MapAfterCreateEager(map, id, protocol, outcome) ==
    IF outcome = "connect_err" THEN map ELSE create_tunnel(map, id, protocol)

\* TunnelManager::create_tunnel: the mapping after the call
MapAfterCreate(map, id, protocol, outcome) ==
    IF outcome = "ok" THEN create_tunnel(map, id, protocol) ELSE map

MgrReturn(op, res, id, socket) ==
    /\ mgr_last' = [op |-> op, res |-> res, id |-> id, socket |-> socket,
                    before |-> tunnels]
    /\ UNCHANGED exceptMgr

\* TunnelManager::active_tunnels: the keys of the mapping
active_tunnels(map) == DOMAIN map

\* TunnelManager::create_tunnel
manager_create_tunnel(protocol, outcome, id) ==
    /\ Len(sockets) < MaxSockets
    /\ tunnels' = MapAfterCreate(tunnels, id, protocol, outcome)
    /\ mgr_ids' = IF outcome = "ok" THEN mgr_ids \cup {id} ELSE mgr_ids
    /\ CASE outcome = "connect_err" ->
              /\ UNCHANGED sockets
              /\ MgrReturn("create_tunnel", "err", 0, 0)
         [] outcome = "connect_hang" ->
              /\ sockets' = Append(sockets, NewSocket)
              /\ MgrReturn("create_tunnel", "pending", 0, Len(sockets) + 1)
         [] outcome = "panic" ->
              /\ sockets' = Append(sockets, NewSocket)
              /\ MgrReturn("create_tunnel", "panic", 0, Len(sockets) + 1)
         [] outcome = "ok" ->
              /\ sockets' = Append(Unmap(sockets, {id}),
                                   [NewSocket EXCEPT !.tunnel = id, !.in_map = TRUE,
                                                     !.held = 1])
              /\ MgrReturn("create_tunnel", "ok", id, Len(sockets) + 1)
         [] OTHER ->
              /\ sockets' = Append(sockets, drop_stream(NewSocket))
              /\ MgrReturn("create_tunnel", "err", 0, Len(sockets) + 1)

\* TunnelManager::get_tunnel: a clone of the Arc, or None
manager_get_tunnel(id) ==
    /\ UNCHANGED <<tunnels, mgr_ids>>
    /\ IF id \in DOMAIN tunnels
       THEN /\ \A k \in DOMAIN sockets :
                  (sockets[k].in_map /\ sockets[k].tunnel = id) => sockets[k].held < MaxHeld
            /\ sockets' = [k \in DOMAIN sockets |->
                              IF sockets[k].in_map /\ sockets[k].tunnel = id
                              THEN [sockets[k] EXCEPT !.held = @ + 1]
                              ELSE sockets[k]]
            /\ MgrReturn("get_tunnel", "some", id, 0)
       ELSE /\ UNCHANGED sockets
            /\ MgrReturn("get_tunnel", "none", id, 0)

\* A caller lets go of an Arc<Tunnel> it got from create_tunnel or get_tunnel
release_tunnel(k) ==
    /\ k \in DOMAIN sockets
    /\ sockets[k].held > 0
    /\ sockets' = [sockets EXCEPT ![k] = DropIfUnheld([@ EXCEPT !.held = @ - 1])]
    /\ UNCHANGED <<tunnels, mgr_ids>>
    /\ MgrReturn("release", "ok", sockets[k].tunnel, k)

\* TunnelManager::remove_tunnel
manager_remove_tunnel(id) ==
    /\ tunnels' = remove_tunnel(tunnels, id)
    /\ sockets' = Unmap(sockets, {id})
    /\ mgr_ids' = mgr_ids \ {id}
    /\ MgrReturn("remove_tunnel", "ok", id, 0)

\* TunnelManager::close_all
manager_close_all ==
    /\ tunnels' = NoTunnels
    /\ sockets' = Unmap(sockets, TunnelIds)
    /\ mgr_ids' = {}
    /\ MgrReturn("close_all", "ok", 0, 0)

\* TunnelManager::active_tunnels
manager_active_tunnels ==
    /\ mgr_last' = [op |-> "active_tunnels", res |-> "ok", id |-> 0, socket |-> 0,
                    before |-> tunnels, ids |-> active_tunnels(tunnels)]
    /\ UNCHANGED <<tunnels, sockets, mgr_ids>>
    /\ UNCHANGED exceptMgr

InitManager ==
    /\ ChanInit /\ budget = 0 /\ PairIdle /\ AuxIdle
    /\ tunnels = NoTunnels
    /\ eng_last = <<>>
    /\ eng_ops = 0

NextManager ==
    \/ \E protocol \in ProtocolType, outcome \in CreateOutcomes, id \in TunnelIds :
          manager_create_tunnel(protocol, outcome, id)
    \/ \E id \in TunnelIds : manager_get_tunnel(id) \/ manager_remove_tunnel(id)
    \/ \E k \in 1 .. MaxSockets : release_tunnel(k)
    \/ manager_close_all
    \/ manager_active_tunnels

SpecManager == InitManager /\ [][NextManager]_vars

(***************************************************************************)
(* SpecTunnel: send_request and receive_response calls on one Tunnel.      *)
(* Each call is a task of the single-threaded executor, which polls new    *)
(* tasks in the order they were issued.  A task takes the connection's     *)
(* Mutex before it enters read or write and keeps it across the await.  A  *)
(* lock() on a held Mutex cannot be served by the only thread: the         *)
(* platform either panics in the parking code or parks the thread for      *)
(* good.                                                                   *)
(***************************************************************************)
MaxTasks == 3

TaskOps == {"send_request", "receive_response"}

\* What the channel operation inside a task can do at a poll
IoOutcomes == {"ok", "err", "pending"}

\* What a lock() on a held Mutex does on this platform
ContendedOutcomes == {"panic", "park"}

\* A lock() that does not look at the holder
lock_unguarded(g, i) == "acquired"

\* parking_lot::Mutex::lock by task i when g holds the Mutex (0: nobody)
lock(g, i) == IF g = 0 THEN "acquired" ELSE "contended"

SetPc(i, pc) == tasks' = [tasks EXCEPT ![i].pc = pc]

\* A caller issues send_request or receive_response on the tunnel
issue(op) ==
    /\ ~stalled
    /\ Len(tasks) < MaxTasks
    /\ tasks' = Append(tasks, [op |-> op, pc |-> "new"])
    /\ UNCHANGED <<guard, chan_log, stalled>>
    /\ UNCHANGED exceptTun

\* The first poll of task i: Tunnel::send_request / receive_response up to
\* the first suspension or the return
first_poll(i, encoded, io, contended) ==
    /\ ~stalled
    /\ i \in DOMAIN tasks
    /\ tasks[i].pc = "new"
    /\ \A j \in 1 .. i - 1 : tasks[j].pc # "new"
    /\ IF tasks[i].op = "send_request" /\ ~encoded
       THEN SetPc(i, "done") /\ UNCHANGED <<guard, chan_log, stalled>>
       ELSE IF lock(guard, i) = "acquired"
       THEN /\ chan_log' = Append(chan_log, i)
            /\ guard' = IF io = "pending" THEN i ELSE 0
            /\ SetPc(i, IF io = "pending" THEN "in_io" ELSE "done")
            /\ UNCHANGED stalled
       ELSE /\ SetPc(i, IF contended = "panic" THEN "panicked" ELSE "parked")
            /\ stalled' = (contended = "park")
            /\ UNCHANGED <<guard, chan_log>>
    /\ UNCHANGED exceptTun

\* A later poll of task i, suspended inside read or write: the operation
\* returns and the guard is dropped at the end of its block
resume(i, io) ==
    /\ ~stalled
    /\ i \in DOMAIN tasks
    /\ tasks[i].pc = "in_io"
    /\ io # "pending"
    /\ SetPc(i, "done")
    /\ guard' = IF guard = i THEN 0 ELSE guard
    /\ UNCHANGED <<chan_log, stalled>>
    /\ UNCHANGED exceptTun

InitTunnel == ChanInit /\ budget = 0 /\ PairIdle /\ EngineIdle /\ AuxIdle

NextTunnel ==
    \/ \E op \in TaskOps : issue(op)
    \/ \E i \in 1 .. MaxTasks, encoded \in BOOLEAN, io \in IoOutcomes,
          contended \in ContendedOutcomes : first_poll(i, encoded, io, contended)
    \/ \E i \in 1 .. MaxTasks, io \in IoOutcomes : resume(i, io)

SpecTunnel == InitTunnel /\ [][NextTunnel]_vars

(***************************************************************************)
(* SpecCodec: the JSON envelope of the tunnel.  A value of ProxyRequest or *)
(* ProxyResponse is a variant with named fields; its JSON is an object     *)
(* with a "type" member naming the variant (serde's internal tag) next to  *)
(* the fields.  ProxyPayload is untagged: its JSON is the JSON of what it  *)
(* holds, and decoding tries Request first, then Response.                 *)
(***************************************************************************)
PacketVersion == 1

\* The values a field can hold
Val == {"a", "b"}

\* ProxyRequest: the required and the optional (Option<_>) fields of each
\* variant, by its serde name
ProxyRequest ==
    [http        |-> [req |-> {"method", "url", "headers"}, opt |-> {"body"}],
     ws_open     |-> [req |-> {"url", "protocols"}, opt |-> {}],
     ws_message  |-> [req |-> {"tunnel_id", "data"}, opt |-> {}],
     ws_close    |-> [req |-> {"tunnel_id", "code", "reason"}, opt |-> {}],
     tcp_connect |-> [req |-> {"host", "port"}, opt |-> {}],
     tcp_data    |-> [req |-> {"tunnel_id", "data"}, opt |-> {}],
     tcp_close   |-> [req |-> {"tunnel_id"}, opt |-> {}]]

\* ProxyResponse, likewise
ProxyResponse ==
    [http          |-> [req |-> {"status", "status_text", "headers", "body"}, opt |-> {}],
     ws_opened     |-> [req |-> {"tunnel_id"}, opt |-> {"protocol"}],
     ws_message    |-> [req |-> {"tunnel_id", "data"}, opt |-> {}],
     ws_closed     |-> [req |-> {"tunnel_id", "code", "reason"}, opt |-> {}],
     tcp_connected |-> [req |-> {"tunnel_id"}, opt |-> {}],
     tcp_data      |-> [req |-> {"tunnel_id", "data"}, opt |-> {}],
     tcp_closed    |-> [req |-> {"tunnel_id"}, opt |-> {}],
     error         |-> [req |-> {"request_id", "error"}, opt |-> {}]]

\* The values of an enum with the given variants
ValuesOf(shapes) ==
    UNION {
        {[variant |-> tag, fields |-> f] :
            f \in {g \in [shapes[tag].req \cup shapes[tag].opt -> Val \cup {"none"}] :
                     \A n \in shapes[tag].req : g[n] # "none"}}
        : tag \in DOMAIN shapes}

\* Serialize for an internally tagged enum: the tag and every field; None is
\* written as null
serialize(v) ==
    [type |-> v.variant,
     members |-> [n \in DOMAIN v.fields |->
                     IF v.fields[n] = "none" THEN "null" ELSE v.fields[n]]]

DecodeErr == [ok |-> FALSE]

\* Deserialize for an internally tagged enum: the tag must name a variant and
\* every required field must be there; members the variant does not have are
\* ignored, an absent or null Option field is None
deserialize(shapes, obj) ==
    IF obj.type \notin DOMAIN shapes THEN DecodeErr
    ELSE LET sh == shapes[obj.type]
         IN  IF \E n \in sh.req : n \notin DOMAIN obj.members \/ obj.members[n] = "null"
             THEN DecodeErr
             ELSE [ok |-> TRUE,
                   value |-> [variant |-> obj.type,
                              fields |-> [n \in sh.req \cup sh.opt |->
                                            IF n \in DOMAIN obj.members
                                                  /\ obj.members[n] # "null"
                                            THEN obj.members[n]
                                            ELSE "none"]]]

\* Serialize for ProxyPayload (untagged): the JSON of the value it holds
serialize_payload(pl) == serialize(pl.value)

\* Deserialize for ProxyPayload (untagged): the first variant, in declaration
\* order, that the object deserializes as
deserialize_payload(obj) ==
    LET q == deserialize(ProxyRequest, obj)
        r == deserialize(ProxyResponse, obj)
    IN  IF q.ok THEN [ok |-> TRUE, value |-> [kind |-> "Request", value |-> q.value]]
        ELSE IF r.ok THEN [ok |-> TRUE, value |-> [kind |-> "Response", value |-> r.value]]
        ELSE DecodeErr

\* ProxyPacket::new_request / new_response
new_request(id, request) ==
    [id |-> id, version |-> PacketVersion,
     payload |-> [kind |-> "Request", value |-> request]]

new_response(id, response) ==
    [id |-> id, version |-> PacketVersion,
     payload |-> [kind |-> "Response", value |-> response]]

\* ProxyPacket::encode
encode(packet) ==
    [id |-> packet.id, version |-> packet.version,
     payload |-> serialize_payload(packet.payload)]

\* ProxyPacket::decode
decode(json) ==
    LET pl == deserialize_payload(json.payload)
    IN  IF pl.ok
        THEN [ok |-> TRUE,
              value |-> [id |-> json.id, version |-> json.version, payload |-> pl.value]]
        ELSE DecodeErr

\* Tunnel::receive_response from the point where read has returned the bytes
\* of one envelope
receive_response(data) ==
    LET packet == decode(data)
    IN  IF ~packet.ok THEN [ok |-> FALSE, err |-> "decode_err"]
        ELSE IF packet.value.payload.kind = "Response"
        THEN [ok |-> TRUE, resp |-> packet.value.payload.value]
        ELSE [ok |-> FALSE, err |-> "unexpected_packet"]

CodecReturn(packet) ==
    /\ codec' = [packet |-> packet, decoded |-> decode(encode(packet)),
                 res |-> receive_response(encode(packet))]
    /\ UNCHANGED exceptCodec

\* The relay answers with a response packet, which the tunnel receives
relay_sends_response(id, r) ==
    /\ r \in ValuesOf(ProxyResponse)
    /\ CodecReturn(new_response(id, r))

\* A request packet comes back to the tunnel
peer_sends_request(id, q) ==
    /\ q \in ValuesOf(ProxyRequest)
    /\ CodecReturn(new_request(id, q))

InitCodec == ChanInit /\ budget = 0 /\ PairIdle /\ EngineIdle /\ AuxIdle

NextCodec ==
    \/ \E id \in TunnelIds, r \in ValuesOf(ProxyResponse) : relay_sends_response(id, r)
    \/ \E id \in TunnelIds, q \in ValuesOf(ProxyRequest) : peer_sends_request(id, q)

SpecCodec == InitCodec /\ [][NextCodec]_vars

(***************************************************************************)
(* SpecAdapter: one WebSocketStream with its socket, a task that reads     *)
(* from it and a task that writes to it.  The socket's events run the      *)
(* handlers connect installed; each handler and each poll runs to its end  *)
(* on the only thread.  The k-th byte to arrive is the number k, so that a *)
(* lost, repeated or displaced byte shows.  A handler or poll is also      *)
(* described by its trace: the Mutex locks and unlocks and the wake()      *)
(* calls it makes, in order.                                               *)
(***************************************************************************)
MAX_BUFFER_SIZE == 1

MaxArrive == 3

MaxChunk == 2

MaxBuf == 2

MaxMsg == 2

Lk(m) == [e |-> "lock", m |-> m]

Ul(m) == [e |-> "unlock", m |-> m]

Wk == [e |-> "wake", m |-> "read_waker"]

\* The Mutexes held just before step i of a trace
Held(trace, i) ==
    {m \in {trace[j].m : j \in 1 .. i - 1} :
        Cardinality({j \in 1 .. i - 1 : trace[j] = Lk(m)})
            > Cardinality({j \in 1 .. i - 1 : trace[j] = Ul(m)})}

\* The Mutexes held during some wake() of a trace
WakeHeld(trace) ==
    UNION {Held(trace, i) : i \in {j \in DOMAIN trace : trace[j].e = "wake"}}

\* The pairs <<held, acquired>> of a trace
Nested(trace) ==
    UNION {{<<h, trace[i].m>> : h \in Held(trace, i)} :
              i \in {j \in DOMAIN trace : trace[j].e = "lock"}}

\* if let Some(waker) = read_waker.lock().take() { waker.wake(); }
\* The guard is a temporary of the if-let's scrutinee: it is dropped at the
\* end of the whole if-let, after the body has run.
take_and_wake(waker) ==
    <<Lk("read_waker")>> \o (IF waker THEN <<Wk>> ELSE <<>>) \o <<Ul("read_waker")>>

\* check_error: the guard lives to the end of its if-let as well
check_error_trace == <<Lk("error"), Ul("error")>>

onmessage_trace(binary, waker) ==
    IF binary
    THEN <<Lk("read_buffer"), Ul("read_buffer")>> \o take_and_wake(waker)
    ELSE <<>>

onerror_trace(waker) == <<Lk("error"), Ul("error")>> \o take_and_wake(waker)

onclose_trace(waker) == take_and_wake(waker)

poll_read_trace(t) ==
    check_error_trace \o
    (IF t.error THEN <<>>
     ELSE (IF t.closed THEN <<Lk("read_buffer"), Ul("read_buffer")>> ELSE <<>>) \o
          (IF t.closed /\ t.read_buffer = <<>> THEN <<>>
           ELSE <<Lk("read_buffer")>> \o
                (IF t.read_buffer = <<>>
                 THEN <<Lk("read_waker"), Ul("read_waker")>>
                 ELSE <<>>) \o
                <<Ul("read_buffer")>>))

RECURSIVE SumLen(_)
SumLen(q) == IF q = <<>> THEN 0 ELSE Head(q).len + SumLen(Tail(q))

\* ws.buffered_amount(): the bytes handed to the socket and not yet sent
buffered_amount(t) == SumLen(t.sent)

poll_write_trace(t) ==
    check_error_trace \o
    (IF ~t.error /\ ~t.closed /\ buffered_amount(t) > MAX_BUFFER_SIZE
     THEN <<Lk("write_waker"), Ul("write_waker")>>
     ELSE <<>>)

\* WebSocketStream::connect, after the open event: the fields of the stream,
\* the socket's state and queue, and history (bytes arrived and returned,
\* close() calls, whether poll_close was called and the error event has
\* fired, lock nestings seen)
Opened ==
    [ready_state |-> "OPEN", read_buffer |-> <<>>, read_waker |-> FALSE,
     write_waker |-> FALSE, closed |-> FALSE, error |-> FALSE, sent |-> <<>>,
     close_calls |-> 0, poll_closed |-> FALSE, fired |-> FALSE, arrived |-> 0, returned |-> <<>>, order |-> {}]

IdleTask == [pc |-> "idle", len |-> 0]

\* waker.wake(): the suspended task is scheduled for another poll
Woken(task, waker) ==
    IF waker /\ task.pc = "suspended" THEN [task EXCEPT !.pc = "woken"] ELSE task

\* What the stream was like when the call began
Pre(t) ==
    [error |-> t.error, closed |-> t.closed, empty |-> t.read_buffer = <<>>,
     over |-> buffered_amount(t) > MAX_BUFFER_SIZE, read_waker |-> t.read_waker,
     fired |-> t.fired, poll_closed |-> t.poll_closed, close_calls |-> t.close_calls]

AdReturn(op, res, len, bytes, handed, trace) ==
    /\ ad_last' = [op |-> op, res |-> res, len |-> len, bytes |-> bytes,
                   handed |-> handed,
                   wake_held |-> WakeHeld(trace), pre |-> Pre(ad)]
    /\ UNCHANGED exceptAd

\* A front insertion where the handler appends
extend_front(buffer, data) == data \o buffer

\* VecDeque::extend
extend(buffer, data) == buffer \o data

\* The onmessage handler for a message of k bytes, binary or text
ad_onmessage(binary, k) ==
    /\ ad.ready_state = "OPEN"
    /\ ad.arrived + k <= MaxArrive
    /\ LET data == [i \in 1 .. k |-> ad.arrived + i]
           trace == onmessage_trace(binary, ad.read_waker)
       IN  /\ ad' = IF binary
                    THEN [ad EXCEPT !.read_buffer = extend(@, data),
                                    !.arrived = @ + k,
                                    !.read_waker = FALSE,
                                    !.order = @ \cup Nested(trace)]
                    ELSE ad
           /\ rd' = IF binary THEN Woken(rd, ad.read_waker) ELSE rd
           /\ AdReturn("onmessage", "ok", k, <<>>, <<>>, trace)
    /\ UNCHANGED wr

\* The onerror handler; the socket fires error when it has failed, and a
\* close event is still to come
ad_onerror ==
    /\ ad.ready_state \in {"OPEN", "CLOSING"}
    /\ LET trace == onerror_trace(ad.read_waker)
       IN  /\ ad' = [ad EXCEPT !.ready_state = "FAILED", !.error = TRUE,
                               !.closed = TRUE, !.read_waker = FALSE,
                               !.fired = TRUE,
                               !.order = @ \cup Nested(trace)]
           /\ rd' = Woken(rd, ad.read_waker)
           /\ AdReturn("onerror", "ok", 0, <<>>, <<>>, trace)
    /\ UNCHANGED wr

\* The onclose handler
ad_onclose ==
    /\ ad.ready_state \in {"OPEN", "CLOSING", "FAILED"}
    /\ LET trace == onclose_trace(ad.read_waker)
       IN  /\ ad' = [ad EXCEPT !.ready_state = "CLOSED", !.closed = TRUE,
                               !.read_waker = FALSE,
                               !.order = @ \cup Nested(trace)]
           /\ rd' = Woken(rd, ad.read_waker)
           /\ AdReturn("onclose", "ok", 0, <<>>, <<>>, trace)
    /\ UNCHANGED wr

\* The reading task polls poll_read with a buffer of buflen bytes: a new
\* read, or the pending one after a wake
ad_poll_read(buflen) ==
    /\ rd.pc \in {"idle", "woken"}
    /\ rd.pc = "woken" => buflen = rd.len
    /\ LET r == poll_read(ad, buflen)
           trace == poll_read_trace(ad)
       IN  /\ ad' = [r.t EXCEPT !.read_waker = (r.res = "pending") \/ @,
                                !.returned = @ \o r.bytes,
                                !.order = @ \cup Nested(trace)]
           /\ rd' = IF r.res = "pending"
                    THEN [pc |-> "suspended", len |-> buflen]
                    ELSE IdleTask
           /\ AdReturn("poll_read", r.res, buflen, r.bytes, <<>>, trace)
    /\ UNCHANGED wr

\* A poll_write without the buffered-amount check
ws_poll_write_unchecked(t, msg, send) == poll_write(t, msg, send)

\* WebSocketStream::poll_write, whole: the error and closed checks come first,
\* then the backpressure check, then the send
ws_poll_write(t, msg, send) ==
    IF ~t.error /\ ~t.closed /\ buffered_amount(t) > MAX_BUFFER_SIZE
    THEN [res |-> "pending", t |-> [t EXCEPT !.write_waker = TRUE]]
    ELSE poll_write(t, msg, send)

\* The writing task polls poll_write with a buffer of len bytes: a new write,
\* or the pending one after a wake
ad_poll_write(len, send) ==
    /\ wr.pc \in {"idle", "woken"}
    /\ wr.pc = "woken" => len = wr.len
    /\ LET r == ws_poll_write(ad, [len |-> len], send)
           trace == poll_write_trace(ad)
       IN  /\ ad' = [r.t EXCEPT !.order = @ \cup Nested(trace)]
           /\ wr' = IF r.res = "pending"
                    THEN [pc |-> "suspended", len |-> len]
                    ELSE IdleTask
           /\ AdReturn("poll_write", r.res, len, <<>>,
                       SubSeq(r.t.sent, Len(ad.sent) + 1, Len(r.t.sent)), trace)
    /\ UNCHANGED rd

\* The socket puts the oldest queued message on the network
ad_drain ==
    /\ ad.ready_state \in {"OPEN", "CLOSING"}
    /\ ad.sent # <<>>
    /\ ad' = [ad EXCEPT !.sent = Tail(@)]
    /\ UNCHANGED <<rd, wr, ad_last>>
    /\ UNCHANGED exceptAd

\* A poll_close that calls close() whatever the latch says
poll_close_unguarded(t) ==
    [t EXCEPT !.close_calls = @ + 1, !.closed = TRUE,
              !.ready_state = IF @ = "OPEN" THEN "CLOSING" ELSE @]

\* WebSocketStream::poll_close
poll_close(t) ==
    IF ~t.closed
    THEN [t EXCEPT !.close_calls = @ + 1, !.closed = TRUE,
                   !.ready_state = IF @ = "OPEN" THEN "CLOSING" ELSE @]
    ELSE t

ad_poll_close ==
    /\ ad' = [poll_close(ad) EXCEPT !.poll_closed = TRUE]
    /\ AdReturn("poll_close", "ok", 0, <<>>, <<>>, <<>>)
    /\ UNCHANGED <<rd, wr>>

InitAdapter ==
    /\ ChanInit /\ budget = 0 /\ PairIdle /\ EngineIdle
    /\ FrameIdle /\ HskIdle /\ MgrIdle /\ TunIdle /\ CodecIdle /\ LateIdle
    /\ ad = Opened
    /\ rd = IdleTask
    /\ wr = IdleTask
    /\ ad_last = <<>>

NextAdapter ==
    \/ \E binary \in BOOLEAN, k \in 0 .. MaxChunk : ad_onmessage(binary, k)
    \/ ad_onerror
    \/ ad_onclose
    \/ \E buflen \in 1 .. MaxBuf : ad_poll_read(buflen)
    \/ \E len \in 1 .. MaxMsg, send \in SendResults : ad_poll_write(len, send)
    \/ ad_drain
    \/ ad_poll_close

SpecAdapter == InitAdapter /\ [][NextAdapter]_vars

\* The executor polls a woken writer again
wr_repoll == wr.pc = "woken" /\ \E send \in SendResults : ad_poll_write(wr.len, send)

\* The socket keeps sending what it has queued, and the executor keeps
\* polling woken tasks
SpecAdapterLive ==
    InitAdapter /\ [][NextAdapter]_vars /\ WF_vars(ad_drain) /\ WF_vars(wr_repoll)

(***************************************************************************)
(* SpecTrunc: reads of the relay's frames, in order, into buffers that may *)
(* be shorter than the message.  The j-th plaintext byte of the i-th frame *)
(* is 10 * i + j, so the frame and the place a returned byte came from     *)
(* show.                                                                   *)
(***************************************************************************)
MaxLongPt == 2

\* The plaintext of the relay's i-th frame, len bytes long
LongPt(i, len) == [j \in 1 .. len |-> 10 * i + j]

\* The relay's i-th frame with a plaintext of len bytes
LongFrame(i, len) ==
    LET n == NoncePlus(server_nonce, i - 1)
    IN  EncryptedData(n, Encrypt(DecryptKey(client_nonce, server_nonce), n,
                                 LongPt(i, len)))

\* read() of the relay's next frame, whose plaintext has len bytes, into a
\* buffer of buflen bytes
read_next(len, buflen) ==
    /\ hs = "done"
    /\ wfut = Idle
    /\ ops < budget
    /\ LET i == Len(accepted) + 1
           r == read(decrypt_nonce, DecryptKey(client_nonce, server_nonce),
                     [kind |-> "frame", frame |-> LongFrame(i, len)], buflen)
       IN  /\ decrypt_nonce' = r.dn
           /\ last_read' = [res |-> r.res, src |-> [kind |-> "peer", idx |-> i],
                            data |-> r.data,
                            dec_before |-> decrypt_nonce, dec_after |-> r.dn,
                            enc_before |-> encrypt_nonce, enc_after |-> encrypt_nonce,
                            pt |-> LongPt(i, len), buflen |-> buflen,
                            after_truncated |->
                                (last_read.res = "ok"
                                    /\ Len(last_read.data) < Len(last_read.pt))]
           /\ mismatch_seen' = (mismatch_seen \/ r.res = "nonce mismatch")
           /\ accepted' = IF r.res = "ok"
                          THEN Append(accepted, [frame |-> LongFrame(i, len),
                                                 nonce |-> r.wire_nonce])
                          ELSE accepted
    /\ ops' = ops + 1
    /\ UNCHANGED <<hs, client_nonce, server_nonce, encrypt_nonce, wfut, wire_out,
                   enc_log, last_write, budget>>
    /\ UNCHANGED <<pairVars, engVars, auxVars>>

NextTrunc ==
    \/ Handshake
    \/ \E len \in 0 .. MaxLongPt, buflen \in 0 .. MaxLongPt : read_next(len, buflen)

SpecTrunc == Init /\ [][NextTrunc]_vars

(***************************************************************************)
(* SpecConnect: calls of WebSocketStream::connect.  A call creates the     *)
(* socket, installs the four handlers, makes a oneshot channel whose       *)
(* sender sits in an Option shared by the call's frame and the onopen      *)
(* closure, and awaits the receiver.  The closures are forgotten, so the   *)
(* sender is dropped only by being taken and sent.  The socket fires open  *)
(* once, or fails with error followed by close; an open socket may later   *)
(* fire error and close.                                                   *)
(***************************************************************************)
MaxConnects == 2

\* futures::channel::oneshot::Receiver::poll: a value sent, the sender
\* dropped unsent, or neither yet
rx_poll(c) == IF c.rx = "sent" THEN "ok"
              ELSE IF c.tx = "dropped" THEN "canceled"
              ELSE "pending"

\* The call's state at its first suspension, rx.await
Connecting ==
    [pc |-> "awaiting", res |-> "none", ready_state |-> "CONNECTING",
     tx |-> "held", rx |-> "empty", woken |-> FALSE,
     closed |-> FALSE, error |-> FALSE, fired |-> <<>>]

\* WebSocket::new threw: the `?` returns the exception
Refused ==
    [Connecting EXCEPT !.pc = "returned", !.res = "err",
                       !.ready_state = "CLOSED", !.tx = "none", !.rx = "none"]

\* connect up to its first suspension
connect(new_ok) ==
    /\ Len(connects) < MaxConnects
    /\ connects' = Append(connects, IF new_ok THEN Connecting ELSE Refused)
    /\ UNCHANGED exceptCn

\* The onopen closure: take the sender and send; the send wakes the receiver
cn_onopen(i) ==
    /\ i \in DOMAIN connects
    /\ connects[i].ready_state = "CONNECTING"
    /\ connects' = [connects EXCEPT ![i].ready_state = "OPEN",
                        ![i].tx = IF connects[i].tx = "held" THEN "taken" ELSE @,
                        ![i].rx = IF connects[i].tx = "held" THEN "sent" ELSE @,
                        ![i].woken = IF connects[i].tx = "held" THEN TRUE ELSE @,
                        ![i].fired = Append(@, "open")]
    /\ UNCHANGED exceptCn

\* The onerror closure: store the error, set the latch, wake the reader
\* (there is none while connect is awaiting); the sender is not touched
cn_onerror(i) ==
    /\ i \in DOMAIN connects
    /\ connects[i].ready_state \in {"CONNECTING", "OPEN"}
    /\ connects' = [connects EXCEPT ![i].ready_state = "CLOSED",
                        ![i].error = TRUE,
                        ![i].closed = TRUE,
                        ![i].fired = Append(@, "error")]
    /\ UNCHANGED exceptCn

\* The onclose closure: set the latch, wake the reader; the sender is not
\* touched.  The socket fires close once, directly or after error.
cn_onclose(i) ==
    /\ i \in DOMAIN connects
    /\ connects[i].tx # "none"
    /\ "close" \notin {connects[i].fired[k] : k \in DOMAIN connects[i].fired}
    /\ connects' = [connects EXCEPT ![i].ready_state = "CLOSED",
                        ![i].closed = TRUE,
                        ![i].fired = Append(@, "close")]
    /\ UNCHANGED exceptCn

\* A poll of the suspended call: rx.await, then Ok(Self{..}) or the mapped
\* error
connect_poll(i) ==
    /\ i \in DOMAIN connects
    /\ connects[i].pc = "awaiting"
    /\ connects' = [connects EXCEPT
                ![i].pc = IF rx_poll(connects[i]) = "pending" THEN "awaiting" ELSE "returned",
                ![i].res = IF rx_poll(connects[i]) = "ok" THEN "ok"
                           ELSE IF rx_poll(connects[i]) = "canceled" THEN "err" ELSE @,
                ![i].woken = FALSE]
    /\ connects[i] # connects'[i]
    /\ UNCHANGED exceptCn

InitConnect == ChanInit /\ budget = 0 /\ PairIdle /\ EngineIdle /\ AuxIdle

NextConnect ==
    \/ \E new_ok \in BOOLEAN : connect(new_ok)
    \/ \E i \in 1 .. MaxConnects : cn_onopen(i)
    \/ \E i \in 1 .. MaxConnects : cn_onerror(i)
    \/ \E i \in 1 .. MaxConnects : cn_onclose(i)
    \/ \E i \in 1 .. MaxConnects : connect_poll(i)

SpecConnect == InitConnect /\ [][NextConnect]_vars

(***************************************************************************)
(* SpecWake: poll_read of one WebSocketStream against its handlers, at the *)
(* granularity of lock acquisitions and atomic loads and stores.  A step   *)
(* of poll_read or of a handler is one lock-protected block or one atomic  *)
(* access.  poll_read keeps the read buffer's lock from its second         *)
(* acquisition to its return; every other lock is released within a step.  *)
(* One handler runs at a time; the reader is polled again only after its   *)
(* waker was invoked.                                                      *)
(***************************************************************************)
MaxPolls == 3

MaxWakeMsgs == 2

\* The steps of poll_read between its entry and its return
InPoll == {"load_closed", "check_eof", "lock_buffer", "register"}

\* An open stream, nobody reading
WkOpened ==
    [error |-> FALSE, closed |-> FALSE, read_buffer |-> 0, read_waker |-> FALSE,
     buffer_locked |-> FALSE, pc |-> "idle", res |-> "none", woken |-> FALSE,
     h |-> "none", overlap |-> FALSE, polls |-> 0, msgs |-> 0, fired |-> {}]

\* `if let Some(waker) = read_waker.lock().take() { waker.wake() }' with no
\* wake
take_no_wake(waker) == FALSE

\* `if let Some(waker) = read_waker.lock().take() { waker.wake() }': whether
\* wake is called
take_wakes(waker) == waker

\* A step of a handler: it runs inside a poll_read if one is under way
HandlerStep(w) == [w EXCEPT !.overlap = @ \/ (wk.pc \in InPoll)]

\* The wake step that ends every handler
wk_wake ==
    /\ wk # <<>>
    /\ wk.h = "wake"
    /\ wk' = HandlerStep([wk EXCEPT !.h = "none",
                                    !.read_waker = FALSE,
                                    !.woken = @ \/ take_wakes(wk.read_waker)])
    /\ UNCHANGED exceptWk

\* onmessage up to the release of the buffer's lock
wk_onmessage(binary, n) ==
    /\ wk # <<>>
    /\ wk.h = "none"
    /\ ~wk.closed
    /\ wk.msgs < MaxWakeMsgs
    /\ ~wk.buffer_locked
    /\ wk' = HandlerStep([wk EXCEPT !.msgs = @ + 1,
                                    !.read_buffer = IF binary THEN @ + n ELSE @,
                                    !.h = IF binary THEN "wake" ELSE "none"])
    /\ UNCHANGED exceptWk

\* onerror: the store of the error
wk_onerror ==
    /\ wk # <<>>
    /\ wk.h = "none"
    /\ wk.fired = {}
    /\ wk' = HandlerStep([wk EXCEPT !.error = TRUE, !.h = "store_closed",
                                    !.fired = @ \cup {"error"}])
    /\ UNCHANGED exceptWk

\* onerror: the store to the latch
wk_onerror_store ==
    /\ wk # <<>>
    /\ wk.h = "store_closed"
    /\ wk' = HandlerStep([wk EXCEPT !.closed = TRUE, !.h = "wake"])
    /\ UNCHANGED exceptWk

\* onclose: the store to the latch
wk_onclose ==
    /\ wk # <<>>
    /\ wk.h = "none"
    /\ "close" \notin wk.fired
    /\ wk' = HandlerStep([wk EXCEPT !.closed = TRUE, !.h = "wake",
                                    !.fired = @ \cup {"close"}])
    /\ UNCHANGED exceptWk

\* poll_read: entry and check_error
wk_poll_read ==
    /\ wk # <<>>
    /\ wk.pc = "idle" \/ (wk.pc = "pending" /\ wk.woken)
    /\ wk.polls < MaxPolls
    /\ wk' = [wk EXCEPT !.polls = @ + 1,
                        !.woken = FALSE,
                        !.overlap = FALSE,
                        !.pc = IF wk.error THEN "idle" ELSE "load_closed",
                        !.res = IF wk.error THEN "err" ELSE "none"]
    /\ UNCHANGED exceptWk

\* poll_read: closed.load
wk_load_closed ==
    /\ wk # <<>>
    /\ wk.pc = "load_closed"
    /\ wk' = [wk EXCEPT !.pc = IF wk.closed THEN "check_eof" ELSE "lock_buffer"]
    /\ UNCHANGED exceptWk

\* poll_read: the block under the first lock of the buffer
wk_check_eof ==
    /\ wk # <<>>
    /\ wk.pc = "check_eof"
    /\ wk' = [wk EXCEPT !.pc = IF wk.read_buffer = 0 THEN "idle" ELSE "lock_buffer",
                        !.res = IF wk.read_buffer = 0 THEN "eof" ELSE @]
    /\ UNCHANGED exceptWk

\* poll_read: the second lock of the buffer and the emptiness test; with
\* data, the copy and the return
wk_lock_buffer ==
    /\ wk # <<>>
    /\ wk.pc = "lock_buffer"
    /\ wk' = IF wk.read_buffer = 0
             THEN [wk EXCEPT !.pc = "register", !.buffer_locked = TRUE]
             ELSE [wk EXCEPT !.pc = "idle", !.res = "data", !.read_buffer = 0]
    /\ UNCHANGED exceptWk

\* poll_read: the registration of the waker and the return of Pending
wk_register ==
    /\ wk # <<>>
    /\ wk.pc = "register"
    /\ wk' = [wk EXCEPT !.pc = "pending", !.res = "pending",
                        !.read_waker = TRUE, !.buffer_locked = FALSE]
    /\ UNCHANGED exceptWk

InitWake ==
    /\ ChanInit /\ budget = 0 /\ PairIdle /\ EngineIdle
    /\ FrameIdle /\ HskIdle /\ MgrIdle /\ TunIdle /\ CodecIdle /\ AdIdle /\ CnIdle /\ RcIdle
    /\ wk = WkOpened

NextWake ==
    \/ wk_wake
    \/ \E binary \in BOOLEAN, n \in 0 .. 1 : wk_onmessage(binary, n)
    \/ wk_onerror
    \/ wk_onerror_store
    \/ wk_onclose
    \/ wk_poll_read
    \/ wk_load_closed
    \/ wk_check_eof
    \/ wk_lock_buffer
    \/ wk_register

SpecWake == InitWake /\ [][NextWake]_vars

(***************************************************************************)
(* SpecLease: register_lease calls on one RelayClient.  Each call is a     *)
(* task of the single-threaded executor; a step runs a task from one       *)
(* suspension point to the next (connect, write_packet_async,              *)
(* read_packet_async) or to its return.  guard is the task holding the     *)
(* client's Mutex, 0 for nobody; a guard that is not 0 in a state is held  *)
(* across a suspension point.                                              *)
(***************************************************************************)
MaxLeaseCalls == 2

\* The values utils::unix_timestamp returns
Clock == {0, 1}

LeaseNames == {"a", "b"}

\* The key of the leases map: the client's one credential id
credential_id == "cred"

\* What read_packet_async can produce
LeaseResponses ==
    [type : {"LeaseUpdateResponse", "RelayInfoResponse"}, decodable : BOOLEAN,
     code : {"Accepted", "Rejected"}]

NoResponse == [type |-> "none", decodable |-> FALSE, code |-> "none"]

\* The checks between read_packet_async and the store that look at nothing
\* but the packet type
check_response_any_code(resp) ==
    IF resp.type # "LeaseUpdateResponse" THEN "invalid response type"
    ELSE "ok"

\* The checks between read_packet_async and the store
check_response(resp) ==
    IF resp.type # "LeaseUpdateResponse" THEN "invalid response type"
    ELSE IF ~resp.decodable THEN "decode error"
    ELSE IF resp.code # "Accepted" THEN "lease registration rejected"
    ELSE "ok"

\* inner.leases.insert(credential_id, LeaseInfo{..})
insert(leases, key, info) ==
    [k \in DOMAIN leases \cup {key} |-> IF k = key THEN info ELSE leases[k]]

\* RelayClient::connect
NewClient == [leases |-> <<>>, guard |-> 0, calls |-> <<>>]

\* The pcs at which a call is suspended in an await
Suspended == {"connect", "write", "read"}

\* No call is between two suspension points: the executor is free to poll
Free == \A j \in DOMAIN rc.calls : rc.calls[j].pc \notin {"locked", "storing"}

EndCall(i, res, resp) ==
    [rc.calls EXCEPT ![i].at = rc.calls[i].pc, ![i].pc = "done",
                     ![i].res = res, ![i].resp = resp]

\* register_lease: the call and its lock of the client
register_lease(name, now, contended) ==
    /\ Free
    /\ Len(rc.calls) < MaxLeaseCalls
    /\ LET i == Len(rc.calls) + 1
           call == [pc |-> "locked", at |-> "none", res |-> "none",
                    resp |-> NoResponse, name |-> name, expires |-> now + 60]
       IN  rc' = IF lock(rc.guard, i) = "acquired"
                 THEN [rc EXCEPT !.calls = Append(@, call), !.guard = i]
                 ELSE [rc EXCEPT !.calls = Append(@, [call EXCEPT !.pc = contended])]
    /\ UNCHANGED exceptRc

\* register_lease: the end of the first block drops the guard; the call
\* suspends in WebSocketStream::connect
rl_unlock(i) ==
    /\ i \in DOMAIN rc.calls
    /\ rc.calls[i].pc = "locked"
    /\ rc' = [rc EXCEPT !.calls[i].pc = "connect",
                        !.guard = IF @ = i THEN 0 ELSE @]
    /\ UNCHANGED exceptRc

\* The call resumes from connect or from write_packet_async
rl_resume(i, io) ==
    /\ Free
    /\ i \in DOMAIN rc.calls
    /\ rc.calls[i].pc \in {"connect", "write"}
    /\ rc' = [rc EXCEPT !.calls =
                IF io = "err" THEN EndCall(i, "err", NoResponse)
                ELSE [@ EXCEPT ![i].pc = IF rc.calls[i].pc = "connect"
                                        THEN "write" ELSE "read"]]
    /\ UNCHANGED exceptRc

\* The call resumes from read_packet_async with an error
rl_read_failed(i) ==
    /\ Free
    /\ i \in DOMAIN rc.calls
    /\ rc.calls[i].pc = "read"
    /\ rc' = [rc EXCEPT !.calls = EndCall(i, "err", NoResponse)]
    /\ UNCHANGED exceptRc

\* The call resumes from read_packet_async with a packet: the checks, and
\* the lock of the client for the store
rl_response(i, resp, contended) ==
    /\ Free
    /\ i \in DOMAIN rc.calls
    /\ rc.calls[i].pc = "read"
    /\ rc' = IF check_response(resp) # "ok"
             THEN [rc EXCEPT !.calls = EndCall(i, "err", resp)]
             ELSE IF lock(rc.guard, i) # "acquired"
             THEN [rc EXCEPT !.calls[i].pc = contended, !.calls[i].resp = resp]
             ELSE [rc EXCEPT !.calls[i].pc = "storing", !.calls[i].resp = resp,
                             !.guard = i]
    /\ UNCHANGED exceptRc

\* The store, the end of its block, and the return of Ok
rl_store(i) ==
    /\ i \in DOMAIN rc.calls
    /\ rc.calls[i].pc = "storing"
    /\ rc' = [rc EXCEPT !.calls = EndCall(i, "ok", rc.calls[i].resp),
                        !.leases = insert(@, credential_id,
                                          [name |-> rc.calls[i].name,
                                           expires |-> rc.calls[i].expires]),
                        !.guard = IF @ = i THEN 0 ELSE @]
    /\ UNCHANGED exceptRc

InitLease ==
    /\ ChanInit /\ budget = 0 /\ PairIdle /\ EngineIdle
    /\ FrameIdle /\ HskIdle /\ MgrIdle /\ TunIdle /\ CodecIdle /\ AdIdle /\ CnIdle
    /\ WkIdle
    /\ rc = NewClient

NextLease ==
    \/ \E name \in LeaseNames, now \in Clock, contended \in ContendedOutcomes :
          register_lease(name, now, contended)
    \/ \E i \in 1 .. MaxLeaseCalls : rl_unlock(i)
    \/ \E i \in 1 .. MaxLeaseCalls, io \in {"ok", "err"} : rl_resume(i, io)
    \/ \E i \in 1 .. MaxLeaseCalls : rl_read_failed(i)
    \/ \E i \in 1 .. MaxLeaseCalls, resp \in LeaseResponses,
          contended \in ContendedOutcomes : rl_response(i, resp, contended)
    \/ \E i \in 1 .. MaxLeaseCalls : rl_store(i)

SpecLease == InitLease /\ [][NextLease]_vars

(***************************************************************************)
(* Claims about the nonce discipline of one connection.                    *)
(***************************************************************************)
\* C1: over any sequence of write calls on one channel, no nonce value is
\* used for encryption more than once under the channel's encrypt key.
C1_NoNonceReuse ==
    \A i, j \in 1 .. Len(enc_log) : i # j => enc_log[i] # enc_log[j]

\* C2: read as big-endian integers, the encrypt nonce of each write is
\* strictly greater than that of every earlier write, and the decrypt nonce
\* of each accepted read is strictly greater than that of every earlier
\* accepted read.
C2_StrictlyIncreasing ==
    /\ \A i, j \in 1 .. Len(enc_log) :
          i < j => BigEndian(enc_log[i]) < BigEndian(enc_log[j])
    /\ \A i, j \in 1 .. Len(accepted) :
          i < j => BigEndian(accepted[i].nonce) < BigEndian(accepted[j].nonce)

\* C3: for two consecutive encrypt operations the second nonce is the first
\* plus 1 as a big-endian integer of NONCE_SIZE bytes, the all-ones value
\* being followed by all-zeros; a write whose increment wrapped is not
\* refused (it returns what the transport makes it return).
C3_ConsecutivePlusOne ==
    /\ \A i \in 1 .. Len(enc_log) - 1 :
          /\ BigEndian(enc_log[i + 1]) = (BigEndian(enc_log[i]) + 1) % NonceSpace
          /\ enc_log[i] = AllOnes => enc_log[i + 1] = AllZeros
    /\ \A i \in 1 .. Len(enc_log) : enc_log[i] \in Nonces
    /\ last_write.res # "none" =>
          BigEndian(last_write.enc_after)
              = (BigEndian(last_write.enc_before) + 1) % NonceSpace

\* C3 witness: a write that started at the all-ones counter returned Ok with
\* the counter at all-zeros, after an earlier write.
C3_Witness ==
    /\ Len(enc_log) >= 2
    /\ last_write.res = "ok"
    /\ last_write.enc_before = AllOnes
    /\ last_write.enc_after = AllZeros

\* The places of a frame in the sequence of frames the relay sent
SentAs(frame) == {i \in 1 .. MaxSent : PeerFrame(i) = frame}

\* The frames of acc can be matched to sent frames of increasing index, all
\* after index prev
RECURSIVE InSendOrder(_, _)
InSendOrder(acc, prev) ==
    IF acc = <<>> THEN TRUE
    ELSE LET later == {i \in SentAs(Head(acc).frame) : i > prev}
         IN  /\ later # {}
             /\ InSendOrder(Tail(acc), CHOOSE i \in later : \A k \in later : i <= k)

\* C4: the on-wire nonce of each accepted frame is the on-wire nonce of the
\* frame accepted before it plus 1, and frames are accepted only in the
\* order the peer sent them.
C4_AcceptedInSendOrder ==
    /\ \A i \in 1 .. Len(accepted) - 1 :
          accepted[i + 1].nonce = NoncePlus(accepted[i].nonce, 1)
    /\ InSendOrder(accepted, 0)

\* C5: on a channel produced by client_handshake the first write encrypts
\* under, and emits a frame carrying, the ClientInit nonce plus 1, and the
\* first read that succeeds is of a frame carrying the ServerInit nonce.
C5_FirstNonces ==
    /\ Len(enc_log) >= 1 => enc_log[1] = NoncePlus(client_nonce, 1)
    /\ \A k \in 1 .. Len(wire_out) :
          (wire_out[k].part = "body" /\ wire_out[k].call = 1)
              => /\ wire_out[k].msg.nonce = NoncePlus(client_nonce, 1)
                 /\ wire_out[k].msg.payload.nonce = NoncePlus(client_nonce, 1)
    /\ Len(accepted) >= 1 => accepted[1].nonce = server_nonce

\* C5 witness: the first write's frame is on the wire and a read succeeded.
C5_Witness ==
    /\ \E k \in 1 .. Len(wire_out) : wire_out[k].part = "body" /\ wire_out[k].call = 1
    /\ Len(accepted) >= 1

\* C7: no frame is ever accepted twice by one channel.
C7_NoFrameAcceptedTwice ==
    \A i, j \in 1 .. Len(accepted) : i # j => accepted[i].frame # accepted[j].frame

\* C8: once a read has failed with nonce mismatch, no later read on the
\* channel succeeds.
C8_NoReadAfterMismatch ==
    ~(mismatch_seen /\ last_read.res = "ok")

\* C10: a write or read future dropped before the transport accepted any
\* byte of the call's frame leaves encrypt_nonce and decrypt_nonce as they
\* were before the call.
C10_DropLeavesNonces ==
    /\ (last_write.res = "dropped" /\ ~last_write.on_wire)
          => /\ last_write.enc_after = last_write.enc_before
             /\ last_write.dec_after = last_write.dec_before
    /\ last_read.res = "dropped"
          => /\ last_read.enc_after = last_read.enc_before
             /\ last_read.dec_after = last_read.dec_before

\* C6: with the second connection's decrypt key equal to the first one's
\* encrypt key and its decrypt nonce taken from the first one's handshake
\* nonce, every read into a buffer that fits returns Ok with exactly the
\* bytes of the corresponding write, in order.
C6_RoundTrip ==
    \A k \in 1 .. Len(b_log) :
        Len(b_log[k].sent) <= b_log[k].buflen
            => b_log[k].res = "ok" /\ b_log[k].data = b_log[k].sent

\* C9: once a ProxyEngine call in which send_request or receive_response
\* failed with a channel error has returned, the tunnel is no longer in the
\* TunnelManager mapping, and no call uses a channel that has failed.
C9_FailedTunnelRemoved ==
    /\ \A id \in DOMAIN tunnels : ~tunnels[id].failed
    /\ eng_last.chan_err => eng_last.id \notin DOMAIN tunnels
    /\ ~eng_last.reused

(***************************************************************************)
(* Claims about length-prefixed framing.                                   *)
(***************************************************************************)

\* C11: write_length_prefixed fails and emits nothing when the data is longer
\* than MAX_RAW_PACKET_SIZE; no prefix and no body above that size is ever
\* handed to the socket, and every body follows a prefix equal to its length.
C11_WriteFrameLimit ==
    /\ (frame_last # <<>> /\ frame_last.op = "write"
            /\ frame_last.datalen > MAX_RAW_PACKET_SIZE)
          => (frame_last.res # "ok" /\ frame_last.emitted = 0)
    /\ \A k \in 1 .. Len(ws_in.sent) :
          LET m == ws_in.sent[k]
          IN  IF m.part = "prefix"
              THEN from_be_bytes(m.bytes) <= MAX_RAW_PACKET_SIZE
              ELSE /\ m.len <= MAX_RAW_PACKET_SIZE
                   /\ k > 1
                   /\ ws_in.sent[k - 1].part = "prefix"
                   /\ from_be_bytes(ws_in.sent[k - 1].bytes) = m.len

\* The length prefix of the frame a returned read_length_prefixed started at
PrefixAt(start) == SubSeq(ws_in.stream, start + 1, start + PREFIX_SIZE)

\* C12: read_length_prefixed returns "packet too large" exactly when the
\* prefix it read is above MAX_RAW_PACKET_SIZE, and then it has allocated no
\* payload buffer and has taken no byte beyond the prefix from the stream.
C12_ReadFrameLimit ==
    /\ (frame_last # <<>> /\ frame_last.op = "read") =>
          LET got_prefix == frame_last.end >= frame_last.start + PREFIX_SIZE
              L == from_be_bytes(PrefixAt(frame_last.start))
          IN  /\ frame_last.res = "packet too large"
                    <=> (got_prefix /\ L > MAX_RAW_PACKET_SIZE)
              /\ frame_last.res = "packet too large" =>
                    /\ ~frame_last.allocated
                    /\ frame_last.data = <<>>
                    /\ frame_last.end = frame_last.start + PREFIX_SIZE
              /\ frame_last.allocated => L <= MAX_RAW_PACKET_SIZE
    /\ (rlp # <<>> /\ rlp.pc = "body") => rlp.len <= MAX_RAW_PACKET_SIZE

\* C12 witness: a prefix one above the limit was read and refused.
C12_Witness ==
    /\ frame_last # <<>> /\ frame_last.op = "read"
    /\ frame_last.res = "packet too large"
    /\ from_be_bytes(PrefixAt(frame_last.start)) = MAX_RAW_PACKET_SIZE + 1

\* C13: however the stream was cut into messages, a read_length_prefixed that
\* returns Ok returns the L bytes after the prefix and has taken 4 + L bytes
\* from the stream, what follows staying in order in read_buffer; one that
\* returns UnexpectedEof found the stream closed short of 4 + L bytes; a poll
\* that found the stream closed does not leave the call pending, and the
\* call fails otherwise only after the socket reported an error.
C13_ReadFrameExact ==
    /\ ws_in.read_buffer = SubSeq(ws_in.stream, Consumed(ws_in) + 1, ws_in.delivered)
    /\ (frame_last # <<>> /\ frame_last.op = "read") =>
          LET start == frame_last.start
              L == from_be_bytes(PrefixAt(start))
          IN  /\ frame_last.res = "ok" =>
                    /\ Len(ws_in.stream) >= start + PREFIX_SIZE + L
                    /\ frame_last.data
                          = SubSeq(ws_in.stream, start + PREFIX_SIZE + 1,
                                   start + PREFIX_SIZE + L)
                    /\ frame_last.end = start + PREFIX_SIZE + L
              /\ frame_last.res = "UnexpectedEof" =>
                    /\ ws_in.closed
                    /\ \/ ws_in.delivered < start + PREFIX_SIZE
                       \/ ws_in.delivered < start + PREFIX_SIZE + L
              /\ frame_last.res = "Other" => ws_in.error
    /\ rlp # <<>> => ~rlp.polled_closed

\* C13 witness: a frame with a payload was returned while a byte of the next
\* frame was already waiting in read_buffer.
C13_Witness ==
    /\ frame_last # <<>> /\ frame_last.op = "read"
    /\ frame_last.res = "ok"
    /\ frame_last.data # <<>>
    /\ ws_in.read_buffer # <<>>

(***************************************************************************)
(* Claims about the handshake.                                             *)
(***************************************************************************)

\* C14: client_handshake returns a connection only for a ServerInit with
\* version 1, an identity, a signature that verifies over the received data
\* under the identity's public key, and a session public key of 32 bytes.
C14_ServerInitValidated ==
    /\ hs = "done" <=> (hsk # <<>> /\ hsk.res = "ok")
    /\ (hsk # <<>> /\ hsk.res = "ok") =>
          /\ hsk.input.kind = "frame"
          /\ LET signed == hsk.input.signed
                 d == signed.data
             IN  /\ d.version = 1
                 /\ d.identity.present
                 /\ d.identity.public_key # "invalid"
                 /\ signed.signature.wellformed
                 /\ signed.signature.key = d.identity.public_key
                 /\ signed.signature.over = d
                 /\ d.session_public_key = 32

\* C14 witness: a handshake has returned a connection.
C14_Witness == hsk # <<>> /\ hsk.res = "ok" /\ hs = "done"

\* C16: client_handshake returns a connection only with a ServerInit that the
\* server produced in response to this handshake's ClientInit.
C16_FreshServerInit ==
    (hsk # <<>> /\ hsk.res = "ok") => hsk.input.signed.data.reply_to = "this"

(***************************************************************************)
(* Claims about the TunnelManager.                                         *)
(***************************************************************************)

\* C15: after a create_tunnel that returned an error the mapping is what it
\* was before the call, no tunnel was handed out, and the transport opened
\* for the attempt (if one was opened) has been dropped and belongs to no
\* tunnel.
C15_CreateFailureLeavesNothing ==
    (mgr_last # <<>> /\ mgr_last.op = "create_tunnel" /\ mgr_last.res = "err") =>
        /\ tunnels = mgr_last.before
        /\ mgr_last.id = 0
        /\ mgr_last.socket # 0 =>
              LET sock == sockets[mgr_last.socket]
              IN  /\ sock.dropped
                  /\ sock.tunnel = 0
                  /\ ~sock.in_map
                  /\ sock.held = 0

\* C15 witness: a handshake failed inside create_tunnel on a manager that
\* already held a tunnel.
C15_Witness ==
    /\ mgr_last # <<>> /\ mgr_last.op = "create_tunnel" /\ mgr_last.res = "err"
    /\ mgr_last.socket # 0
    /\ DOMAIN tunnels # {}

\* A tunnel some holder (the mapping or a caller) still has an Arc to
Live(sock) == sock.tunnel # 0 /\ (sock.in_map \/ sock.held > 0)

\* C19: a successful create_tunnel stores its tunnel under an id that was not
\* a key of the mapping, leaves every earlier entry as it was, and all live
\* tunnels have pairwise distinct ids.
C19_FreshTunnelId ==
    /\ (mgr_last # <<>> /\ mgr_last.op = "create_tunnel" /\ mgr_last.res = "ok") =>
          /\ mgr_last.id \notin DOMAIN mgr_last.before
          /\ \A id \in DOMAIN mgr_last.before :
                id \in DOMAIN tunnels /\ tunnels[id] = mgr_last.before[id]
    /\ \A j \in DOMAIN sockets, k \in DOMAIN sockets :
          (j # k /\ Live(sockets[j]) /\ Live(sockets[k]))
              => sockets[j].tunnel # sockets[k].tunnel

\* C20: once a tunnel has been destroyed (its mapping entry dropped and no
\* holder left), close has been invoked on its WebSocket.
C20_DestroyedTunnelClosed ==
    \A k \in DOMAIN sockets :
        (sockets[k].tunnel # 0 /\ sockets[k].dropped) => sockets[k].close_called

(***************************************************************************)
(* Claims about authentication of received frames.                         *)
(***************************************************************************)

\* C17: a read of a frame that carries the expected nonce but whose payload
\* was altered returns the decryption error, copies no plaintext into the
\* caller's buffer and leaves decrypt_nonce where it was.
C17_TamperedFrameRejected ==
    (/\ last_read.res \notin {"none", "dropped"}
     /\ last_read.src.kind = "tampered"
     /\ PeerFrame(last_read.src.idx).nonce = last_read.dec_before)
        => /\ last_read.res = "decryption failed"
           /\ last_read.data = <<>>
           /\ last_read.dec_after = last_read.dec_before

\* C17 witness: after one accepted frame, the next frame arrived with the
\* expected nonce and an altered payload, and the read has returned.
C17_Witness ==
    /\ Len(accepted) >= 1
    /\ last_read.res \notin {"none", "dropped"}
    /\ last_read.src.kind = "tampered"
    /\ PeerFrame(last_read.src.idx).nonce = last_read.dec_before

(***************************************************************************)
(* Claims about the per-tunnel guard.                                      *)
(***************************************************************************)

\* C18: at most one task of a tunnel is inside SecureConnection::read or
\* write at any time, that task holds the guard, and the tasks enter the
\* channel in the order in which they were issued.
C18_TunnelSerialized ==
    /\ \A i \in DOMAIN tasks, j \in DOMAIN tasks :
          (tasks[i].pc = "in_io" /\ tasks[j].pc = "in_io") => i = j
    /\ \A i \in DOMAIN tasks : tasks[i].pc = "in_io" => guard = i
    /\ \A a \in DOMAIN chan_log, b \in DOMAIN chan_log :
          a < b => chan_log[a] < chan_log[b]

\* C18 witness: a call was issued while an earlier one was suspended inside
\* the channel and did not get in, and a later call entered after the first
\* had returned.
C18_Witness ==
    /\ Len(chan_log) >= 2
    /\ \E i \in DOMAIN tasks : tasks[i].pc = "panicked"

(***************************************************************************)
(* Claims about the TunnelManager's mapping.                               *)
(***************************************************************************)

\* C21: the keys of the mapping are exactly the ids whose creation succeeded
\* and that were not removed or cleared since; active_tunnels returns that
\* set, get_tunnel(id) returns a tunnel iff id is in it, remove_tunnel of an
\* absent id leaves the mapping as it was, and close_all leaves it empty.
C21_MappingTracksCreated ==
    /\ DOMAIN tunnels = mgr_ids
    /\ mgr_last # <<>> =>
          /\ mgr_last.op = "active_tunnels" => mgr_last.ids = mgr_ids
          /\ mgr_last.op = "get_tunnel" =>
                (mgr_last.res = "some" <=> mgr_last.id \in mgr_ids)
          /\ (mgr_last.op = "remove_tunnel" /\ mgr_last.id \notin DOMAIN mgr_last.before)
                => tunnels = mgr_last.before
          /\ mgr_last.op = "remove_tunnel" => mgr_last.id \notin DOMAIN tunnels
          /\ mgr_last.op = "close_all" => tunnels = NoTunnels

\* C21 witness: active_tunnels is asked after one of two created tunnels was
\* removed, and returns the other.
C21_Witness ==
    /\ mgr_last # <<>> /\ mgr_last.op = "active_tunnels"
    /\ mgr_last.ids = {1}
    /\ \E k \in DOMAIN sockets : sockets[k].tunnel = 2 /\ ~sockets[k].in_map

(***************************************************************************)
(* Claims about the packet codec.                                          *)
(***************************************************************************)

\* C22: for every ProxyResponse r, decoding the encoding of
\* new_response(id, r) gives a packet with the same id whose payload is the
\* Response r, and receive_response returns r; and receive_response returns
\* an error for every envelope whose payload was encoded as a Request.
C22_ResponseRoundTrip ==
    codec # <<>> =>
        IF codec.packet.payload.kind = "Response"
        THEN /\ codec.decoded.ok
             /\ codec.decoded.value.id = codec.packet.id
             /\ codec.decoded.value.payload = codec.packet.payload
             /\ codec.res.ok
             /\ codec.res.resp = codec.packet.payload.value
        ELSE ~codec.res.ok

(***************************************************************************)
(* Claims about the WebSocketStream adapter.                               *)
(***************************************************************************)

\* C23: once the socket's error event has fired, every poll_read and every
\* poll_write returns that error, whatever is queued in read_buffer and
\* whatever the closed latch says (poll_write never reports BrokenPipe
\* then), no byte is taken from read_buffer and nothing is handed to the
\* socket.
C23_ErrorPrecedence ==
    (ad_last # <<>> /\ ad_last.op \in {"poll_read", "poll_write"} /\ ad_last.pre.fired) =>
        /\ ad_last.res = "Other"
        /\ ad_last.bytes = <<>>
        /\ ad_last.handed = <<>>
        /\ ad.error

\* C23 witness: poll_read is called after the error event with bytes still
\* queued and the closed latch set.
C23_Witness ==
    /\ ad_last # <<>> /\ ad_last.op = "poll_read"
    /\ ad_last.pre.fired /\ ~ad_last.pre.empty /\ ad_last.pre.closed
    /\ ad_last.res = "Other"

\* C24: with no error recorded, poll_read returns EOF only when the closed
\* latch is set and read_buffer is empty, and by then every byte that arrived
\* has been returned to the reader; with read_buffer empty and the latch not
\* set it returns Pending and the waker is installed.
C24_EofAfterQueue ==
    (ad_last # <<>> /\ ad_last.op = "poll_read" /\ ~ad_last.pre.error) =>
        /\ (ad_last.res = "ready" /\ ad_last.bytes = <<>>) =>
              /\ ad_last.pre.closed /\ ad_last.pre.empty
              /\ ad.returned = [i \in 1 .. ad.arrived |-> i]
        /\ (ad_last.pre.closed /\ ad_last.pre.empty) =>
              (ad_last.res = "ready" /\ ad_last.bytes = <<>>)
        /\ (ad_last.pre.empty /\ ~ad_last.pre.closed) =>
              (ad_last.res = "pending" /\ ad.read_waker /\ rd.pc = "suspended")
        /\ ~ad_last.pre.empty => (ad_last.res = "ready" /\ ad_last.bytes # <<>>)

\* C24 witness: EOF is reported after bytes that were queued when the close
\* event came have been read.
C24_Witness ==
    /\ ad_last # <<>> /\ ad_last.op = "poll_read" /\ ~ad_last.pre.error
    /\ ad_last.res = "ready" /\ ad_last.bytes = <<>>
    /\ ad.arrived > 0

\* C25: as long as no error event has fired, the bytes poll_read has returned
\* so far, followed by the bytes in read_buffer, are the bytes that arrived,
\* in arrival order (so what was returned is a prefix of what arrived, with
\* nothing lost, repeated or displaced), and a poll_read returns at most
\* len(buf) bytes.
C25_FifoIntegrity ==
    /\ (ad # <<>> /\ ~ad.fired) =>
          ad.returned \o ad.read_buffer = [i \in 1 .. ad.arrived |-> i]
    /\ (ad_last # <<>> /\ ad_last.op = "poll_read") =>
          Len(ad_last.bytes) <= ad_last.len

\* C25 witness: a poll_read with a buffer shorter than the queue left bytes
\* behind, and a message arrived in between two reads.
C25_Witness ==
    /\ ad_last # <<>> /\ ad_last.op = "poll_read"
    /\ Len(ad_last.bytes) = ad_last.len
    /\ Len(ad.returned) > Len(ad_last.bytes)
    /\ ad.read_buffer # <<>>

\* C26: poll_write hands nothing to the socket while the buffered amount is
\* above MAX_BUFFER_SIZE (it installs the write waker and returns Pending);
\* otherwise, when the stream is not closed and no error is set, it hands the
\* whole buf to the socket as exactly one message and returns len(buf).
C26_BackpressureSafety ==
    (ad_last # <<>> /\ ad_last.op = "poll_write"
        /\ ~ad_last.pre.error /\ ~ad_last.pre.closed) =>
        IF ad_last.pre.over
        THEN ad_last.res = "pending" /\ ad_last.handed = <<>> /\ ad.write_waker
        ELSE ad_last.res = "ok" /\ ad_last.handed = <<[len |-> ad_last.len]>>

\* C26 as amended: as C26, except that below the limit the buf is handed to
\* the socket's send whole, as one message, and poll_write returns len(buf)
\* if send accepted it and an error of kind Other, with nothing queued, if
\* send failed.
C26_BackpressureSafetyAmended ==
    (ad_last # <<>> /\ ad_last.op = "poll_write"
        /\ ~ad_last.pre.error /\ ~ad_last.pre.closed) =>
        IF ad_last.pre.over
        THEN ad_last.res = "pending" /\ ad_last.handed = <<>> /\ ad.write_waker
        ELSE \/ ad_last.res = "ok" /\ ad_last.handed = <<[len |-> ad_last.len]>>
             \/ ad_last.res = "Other" /\ ad_last.handed = <<>>

\* C26 witness: a poll_write was refused for backpressure.
C26_Witness ==
    /\ ad_last # <<>> /\ ad_last.op = "poll_write"
    /\ ~ad_last.pre.error /\ ~ad_last.pre.closed /\ ad_last.pre.over
    /\ ad_last.res = "pending"

\* C27: a writer that poll_write suspended for backpressure does not stay
\* suspended forever: it is woken once the buffered amount is back at or
\* below MAX_BUFFER_SIZE, and its write then completes or fails.
C27_BackpressureLiveness ==
    (wr # <<>> /\ wr.pc = "suspended" /\ buffered_amount(ad) <= MAX_BUFFER_SIZE)
        ~> (wr.pc # "suspended")

\* C28: the socket's close is invoked at most once however often poll_close
\* is called, and not at all when the stream was already closed; after
\* poll_close every poll_read observes EOF and every poll_write returns
\* BrokenPipe.
C28_CloseIdempotent ==
    /\ ad # <<>> => ad.close_calls <= 1
    /\ ad_last # <<>> =>
          /\ (ad_last.op = "poll_close" /\ ad_last.pre.closed) =>
                ad.close_calls = ad_last.pre.close_calls
          /\ (ad_last.op = "poll_read" /\ ad_last.pre.poll_closed) =>
                (ad_last.res = "ready" /\ ad_last.bytes = <<>>)
          /\ (ad_last.op = "poll_write" /\ ad_last.pre.poll_closed) =>
                ad_last.res = "BrokenPipe"

\* C28 as amended: close is invoked at most once and not at all when the
\* stream was already closed; after poll_close no poll_read is left pending:
\* it returns the recorded error if there is one, else the bytes still in
\* read_buffer and, once that is empty, EOF; every poll_write returns the
\* recorded error if there is one, else BrokenPipe, and hands nothing to the
\* socket.
C28_CloseIdempotentAmended ==
    /\ ad # <<>> => ad.close_calls <= 1
    /\ ad_last # <<>> =>
          /\ (ad_last.op = "poll_close" /\ ad_last.pre.closed) =>
                ad.close_calls = ad_last.pre.close_calls
          /\ (ad_last.op = "poll_close" /\ ~ad_last.pre.closed) =>
                ad.close_calls = ad_last.pre.close_calls + 1
          /\ ad_last.op = "poll_close" => ad.closed
          /\ (ad_last.op = "poll_read" /\ ad_last.pre.poll_closed) =>
                /\ ad_last.res = (IF ad_last.pre.error THEN "Other" ELSE "ready")
                /\ (ad_last.bytes = <<>>) <=> (ad_last.pre.error \/ ad_last.pre.empty)
          /\ (ad_last.op = "poll_write" /\ ad_last.pre.poll_closed) =>
                /\ ad_last.res = (IF ad_last.pre.error THEN "Other" ELSE "BrokenPipe")
                /\ ad_last.handed = <<>>

\* C28 witness: poll_close was called twice on an open stream, and a
\* poll_read after it reported EOF.
C28_Witness ==
    /\ ad_last # <<>> /\ ad_last.op = "poll_read" /\ ad_last.pre.poll_closed
    /\ ad_last.res = "ready" /\ ad_last.bytes = <<>>
    /\ ad.close_calls = 1
    /\ ad.ready_state = "CLOSING"

\* C29: in the message, error and close handlers no adapter Mutex is held
\* while wake() runs, and no two adapter Mutexes are ever taken nested in
\* both orders by the handlers and the polls.
C29_WakeOutsideLocks ==
    /\ (ad_last # <<>> /\ ad_last.op \in {"onmessage", "onerror", "onclose"}) =>
          ad_last.wake_held = {}
    /\ ad # <<>> =>
          \A p \in ad.order : p[1] # p[2] /\ <<p[2], p[1]>> \notin ad.order

(***************************************************************************)
(* Claims about reads into short buffers.                                  *)
(***************************************************************************)

\* C30: a read whose buffer is shorter than the decrypted plaintext returns
\* len(buf), the buffer holds the first len(buf) plaintext bytes, and the
\* decrypt nonce has advanced by exactly one; every read, the one after a
\* truncated read included, returns bytes of its own frame only, from the
\* frame's first byte on.
C30_Truncation ==
    last_read.res = "ok" =>
        /\ Len(last_read.pt) > last_read.buflen =>
              /\ Len(last_read.data) = last_read.buflen
              /\ last_read.data = SubSeq(last_read.pt, 1, last_read.buflen)
        /\ last_read.dec_after = NoncePlus(last_read.dec_before, 1)
        /\ \A j \in 1 .. Len(last_read.data) :
              last_read.data[j] = 10 * last_read.src.idx + j
        /\ Len(last_read.data) <= last_read.buflen

\* C30 witness: a read into a buffer shorter than its message, right after
\* another truncated read, returned bytes.
C30_Witness ==
    /\ last_read.res = "ok" /\ last_read.src.kind = "peer"
    /\ last_read.after_truncated
    /\ last_read.data # <<>>
    /\ Len(last_read.pt) > last_read.buflen

(***************************************************************************)
(* Claims about empty messages.                                            *)
(***************************************************************************)

\* C31: a write of an empty buffer consumes one nonce and emits one frame
\* whose ciphertext is the 16-byte tag only, and the read of the receiving
\* channel accepts that frame, advances its decrypt nonce by one and returns
\* 0 bytes.
C31_EmptyWrite ==
    /\ \A k \in 1 .. Len(BodyFrames) :
          BodyFrames[k].msg.payload.pt = <<>> =>
              /\ ciphertext_len(BodyFrames[k].msg.payload) = 16
              /\ BodyFrames[k].msg.nonce = enc_log[BodyFrames[k].call]
    /\ Len(BodyFrames) = Len(enc_log)
    /\ \A k \in 1 .. Len(b_log) :
          b_log[k].sent = <<>> =>
              /\ b_log[k].res = "ok"
              /\ b_log[k].data = <<>>
              /\ b_log[k].dn_after = NoncePlus(b_log[k].dn_before, 1)

(***************************************************************************)
(* Claims about progress on the single-threaded executor.                  *)
(***************************************************************************)

\* C32: a send_request issued while a receive_response on the same tunnel is
\* suspended inside the channel, holding the guard, is not lost to the guard:
\* it neither panics at the guard nor parks the only thread there (which
\* would leave no task able to be polled again).
C32_GuardNeverBlocks ==
    /\ \A i \in DOMAIN tasks, j \in DOMAIN tasks :
          (/\ tasks[i].op = "receive_response"
           /\ tasks[i].pc = "in_io"
           /\ guard = i
           /\ tasks[j].op = "send_request"
           /\ i < j)
              => tasks[j].pc \notin {"panicked", "parked"}

\* C33: connect returns whenever the socket has opened or has failed before
\* opening: once the open, error or close event has been handled, the
\* awaiting call has returned or it has been woken and its next poll
\* returns; it returns the stream after open and an error after a failure.
C33_ConnectReturns ==
    \A i \in DOMAIN connects :
        /\ connects[i].fired # <<>> =>
              \/ connects[i].pc = "returned"
              \/ connects[i].woken /\ rx_poll(connects[i]) # "pending"
        /\ (connects[i].pc = "returned" /\ connects[i].fired # <<>>) =>
              connects[i].res = IF connects[i].fired[1] = "open" THEN "ok" ELSE "err"

ReadFailed(r) == r.res \notin {"none", "ok", "dropped"}

\* C35: a read that returns an error leaves decrypt_nonce and encrypt_nonce
\* as they were; after the handshake decrypt_nonce changes only in a read
\* that returns Ok, and then to its successor.
C35_FailedReadKeepsNonces ==
    /\ [](ReadFailed(last_read) =>
              /\ last_read.dec_after = last_read.dec_before
              /\ last_read.enc_after = last_read.enc_before)
    /\ [][/\ (ReadFailed(last_read') /\ last_read' # last_read) =>
                 /\ decrypt_nonce' = decrypt_nonce
                 /\ encrypt_nonce' = encrypt_nonce
          /\ (hs = "done" /\ decrypt_nonce' # decrypt_nonce) =>
                 /\ last_read'.res = "ok"
                 /\ last_read'.dec_before = decrypt_nonce
                 /\ decrypt_nonce' = NoncePlus(decrypt_nonce, 1)]_vars

\* C35 witness: a frame with the expected nonce and a damaged payload was
\* refused after an earlier frame had been accepted.
C35_Witness ==
    /\ last_read.res = "decryption failed"
    /\ accepted # <<>>
    /\ decrypt_nonce = last_read.dec_before

\* C36: what was handed to the transport is a run of whole frames, a length
\* prefix directly followed by the body of the same call, and after them at
\* most the length prefix of the last frame begun; nothing is appended after
\* a frame that was left unfinished.
C36_WholeFramesOnly ==
    \A k \in DOMAIN wire_out :
        /\ wire_out[k].part = "len" =>
              \/ k = Len(wire_out)
              \/ /\ wire_out[k + 1].part = "body"
                 /\ wire_out[k + 1].call = wire_out[k].call
        /\ wire_out[k].part = "body" =>
              /\ k > 1
              /\ wire_out[k - 1].part = "len"
              /\ wire_out[k - 1].call = wire_out[k].call

(***************************************************************************)
(* Claims about how calls end.                                             *)
(***************************************************************************)

\* C37: client_handshake ends by returning Ok or an error, never by a panic:
\* a ServerInit that passes the version, identity, signature and session key
\* checks but carries a nonce that is not NONCE_SIZE bytes long is answered
\* with an error.
C37_HandshakeNeverPanics ==
    hsk # <<>> =>
        /\ hsk.res # "panic"
        /\ (/\ hsk.input.kind = "frame"
            /\ validate_server_init([hsk.input.signed EXCEPT
                                        !.data.nonce = AllZeros]) = "ok"
            /\ Len(hsk.input.signed.data.nonce) # NONCE_SIZE)
              => hsk.res \notin {"ok", "panic"}

\* C38: when handle_http_request has returned, on whichever path, the tunnel
\* it created is not in the mapping.
C38_OneShotTunnel ==
    (eng_last.op = "handle_http_request" /\ eng_last.id # 0)
        => eng_last.id \notin DOMAIN tunnels

(***************************************************************************)
(* Claims about the relay client.                                          *)
(***************************************************************************)

\* C39: the leases map changes only in the step in which a register_lease
\* call returns Ok after a LeaseUpdateResponse with code Accepted; a call
\* that returns an error leaves the map as it was; and the client's Mutex is
\* never held across a suspension point, so no call ever finds it held.
C39_LeaseStoredOnAccept ==
    /\ [](\A i \in DOMAIN rc.calls :
              /\ rc.calls[i].pc \in Suspended => rc.guard # i
              /\ rc.calls[i].pc \notin ContendedOutcomes)
    /\ [][/\ rc'.leases # rc.leases =>
                \E i \in DOMAIN rc.calls :
                    /\ rc.calls[i].pc = "storing"
                    /\ rc'.calls[i].pc = "done"
                    /\ rc'.calls[i].res = "ok"
                    /\ rc'.calls[i].resp.type = "LeaseUpdateResponse"
                    /\ rc'.calls[i].resp.decodable
                    /\ rc'.calls[i].resp.code = "Accepted"
                    /\ rc'.leases[credential_id].name = rc.calls[i].name
          /\ \A i \in DOMAIN rc.calls :
                (rc.calls[i].pc # "done" /\ rc'.calls[i].pc = "done"
                    /\ rc'.calls[i].res = "err") => rc'.leases = rc.leases]_vars

\* C39 witness: a call was rejected by the relay after an earlier call had
\* stored its lease, and the stored lease is still the earlier call's.
C39_Witness ==
    /\ Len(rc.calls) = 2
    /\ rc.calls[1].res = "ok"
    /\ rc.calls[2].res = "err"
    /\ rc.calls[2].resp.code = "Rejected"
    /\ rc.calls[2].resp.type = "LeaseUpdateResponse"
    /\ rc.calls[2].name # rc.calls[1].name
    /\ rc.leases[credential_id].name = rc.calls[1].name

====
